---------------------------- MODULE Spec2Model ----------------------------
(***************************************************************************)
(* A model of the request-dispatch engine of the content app               *)
(* (pulpcore/content/handler.py).                                          *)
(*                                                                         *)
(* The module holds several specifications over one set of variables; each *)
(* specification moves one group of variables and leaves the others at     *)
(* their initial value:                                                    *)
(*   SpecLadder  requests for a ContentArtifact without a local artifact,  *)
(*               one after the other: the mirror fallback ladder, a remote *)
(*               try, persistence (Handler._stream_content_artifact,       *)
(*               _stream_remote_artifact, _save_artifact)                  *)
(*   SpecSave    concurrent requests that have each downloaded the same    *)
(*               missing artifact: the persistence phase, its shield and   *)
(*               what follows it                                           *)
(*   SpecCache   the response cache and its auth gate (Handler.            *)
(*               find_base_path_cached, auth_cached, stream_content)       *)
(*   SpecDispatch    one request through Handler._match_and_stream up to   *)
(*               the choice of the source: resolve, guard, root redirect,  *)
(*               content_handler, and the branch taken after it            *)
(*   SpecCheckpoint  one request under a checkpoint distribution, from the *)
(*               checkpoint branch on (_select_checkpoint_publication,     *)
(*               _parse_checkpoint_path, _redirect_sub_path)               *)
(*   SpecServe   one request for a ContentArtifact with a local artifact:  *)
(*               Handler._serve_content_artifact and                       *)
(*               _build_response_from_content_artifact                     *)
(*   SpecRange   one remote try with a Range header: the header and data   *)
(*               callbacks of Handler._stream_remote_artifact, and a later *)
(*               request for the same path                                 *)
(*   SpecPersist one fetch from the return of downloader.run() to the end  *)
(*               of Handler._save_artifact, counting the rows it inserts   *)
(*   SpecMatch   Handler._match_distribution on paths as strings of        *)
(*               characters, with the listing of DistroListings            *)
(*   SpecBranch  one request in Handler._match_and_stream after the hook:  *)
(*               the publication branch, the repository version branch and *)
(*               what follows them                                         *)
(*   SpecSource  the choice of the publication or repository version of a  *)
(*               distribution (lines 742-764) and the branch entered       *)
(*   SpecRemote  one request in the pull-through statements of the         *)
(*               dispatcher (lines 888-942)                                *)
(*   SpecSaveFails   the requests of SpecSave when _save_artifact can      *)
(*               raise                                                     *)
(*   SpecOrphan  the requests of SpecSave while orphan cleanup deletes     *)
(*               unreferenced Artifacts                                    *)
(*   SpecPull    concurrent first pull-through requests for one content    *)
(*               unit in Handler._save_artifact, statement by statement    *)
(***************************************************************************)
EXTENDS Integers, Sequences, FiniteSets, TLC

(***************************************************************************)
(* Bounds of the model.                                                    *)
(***************************************************************************)
\* concurrent requests for the same ContentArtifact
NumProc == 2
\* requests that arrive one after the other in SpecLadder
MaxRequests == 2
\* RemoteArtifacts of the ContentArtifact, in order_by_acs() order
NumMirrors == 2
\* chunks the downloader hands to handle_data for one body
NumChunks == 2
\* the clock runs from 0 to MaxTime
MaxTime == 3
\* settings.REMOTE_CONTENT_FETCH_FAILURE_COOLDOWN, in clock ticks
Cooldown == 1
\* checkpoint timestamps name the seconds 0..MaxSecond
MaxSecond == 2
\* clock ticks in one second (datetime has microseconds)
TicksPerSecond == 2
\* Publication rows in the database of SpecCheckpoint
MaxPublications == 2
\* the characters of the longest request path of SpecMatch
MaxPathLen == 4
\* the relative paths a content unit built from one artifact can span
MaxPaths == 2
\* the upstream body of SpecRange has 1..MaxLength bytes
MaxLength == 4

Proc == 1..NumProc
Mirrors == 1..NumMirrors

\* the distributions of the domain, by base_path; no base_path is a prefix of
\* another one
Distributions == {<<"a">>, <<"b", "a">>}

\* the paths requests are made for
ReqPaths ==
    {[segs |-> <<"a", "x">>, slash |-> FALSE],
     [segs |-> <<"a">>, slash |-> FALSE],
     [segs |-> <<"b", "a", "x">>, slash |-> FALSE],
     [segs |-> <<"b">>, slash |-> TRUE],
     [segs |-> <<"a", "x", "y">>, slash |-> FALSE],
     [segs |-> <<"x">>, slash |-> FALSE]}

\* every base key a request path can lead to
BaseKeys ==
    UNION {{SubSeq(q.segs, 1, k) : k \in 1..Len(q.segs)} : q \in ReqPaths}

\* failed_at IS NULL
NoTime == -1
\* no Artifact (content_artifact.artifact is None, no local `artifact` yet)
NoArtifact == -1
\* the id of an Artifact row that was in the store before any request ran
OldArtifact == 0
\* Python's None where the value is otherwise a number
None == -1
\* the "*" of an unsatisfied-range Content-Range
Star == -2

\* a path without segments
EmptyPath == [segs |-> << >>, slash |-> FALSE]
\* no distribution
NoDistro ==
    [pulp_domain |-> "", base_path |-> << >>, content_guard |-> FALSE,
     checkpoint |-> FALSE]
\* no publication
NoPublication ==
    [id |-> 0, pulp_created |-> 0, repository |-> 0, checkpoint |-> FALSE]
\* the status of what the resolver or the dispatcher raises or returns
StatusOf(kind) ==
    CASE kind = "none" -> 0
      [] kind = "HTTPMovedPermanently" -> 301
      [] kind = "HTTPForbidden" -> 403
      [] kind = "PathNotResolved" -> 404
      [] kind = "HTTPFound" -> 302
      [] kind = "HTTPRequestRangeNotSatisfiable" -> 416
      [] kind \in {"MultipleObjectsReturned", "IndexError", "Exception",
                   "NotImplementedError"} -> 500
      [] OTHER -> 200

\* a response, or the exception that becomes one
Response(kind, reason, location) ==
    [status |-> StatusOf(kind), kind |-> kind, reason |-> reason,
     location |-> location]

\* no response yet
NoResponse == Response("none", "", EmptyPath)

VARIABLES
    \* ---- the store and the clock
    now,          \* timezone.now()
    failedAt,     \* RemoteArtifact.failed_at, per mirror
    rows,         \* committed Artifact rows of the content-address: [id, file]
    pendingRow,   \* per request: its INSERT of an Artifact is not yet committed
    caArtifact,   \* committed ContentArtifact.artifact (an Artifact id)
    files,        \* files on disk: download_result.path of request p is p
    unlinked,     \* history: the files os.unlink() was called on
    cacheEnabled, \* settings.CACHE_ENABLED
    reqs,         \* the requests that have arrived so far
    \* ---- one request task (per request)
    pc,           \* position of the task / of its persistence thread
    elig,         \* the remote_artifacts queryset, evaluated
    idx,          \* position of the async for in elig
    chunks,       \* chunks of the current download handled so far
    prepared,     \* response.prepared: the headers went out to the client
    body,         \* the body bytes written to the client: <<mirror, chunk>>
    result,       \* how the request ended
    eof,          \* response.write_eof() was called
    linger,       \* SO_LINGER=(1,0) is set on the client socket
    art,          \* the local variable `artifact` of _save_artifact (an id)
    future,       \* response.future_response is attached
    cancelledIn,  \* the phase the task was in when it was cancelled
    \* ---- history of a request
    startTime,    \* the clock when the queryset was built
    seenFailedAt, \* failed_at of every mirror when the queryset was built
    contacted,    \* mirrors a downloader was acquired for
    fails,        \* the failed tries: <<mirror, exception, response.prepared>>
    lateTry,      \* a downloader was acquired after the headers went out
    clashed       \* the request's artifact.save() hit the unique violation

storeVars == <<now, failedAt, rows, pendingRow, caArtifact, files, unlinked,
               cacheEnabled, reqs>>
taskVars == <<pc, elig, idx, chunks, prepared, body, result, eof, linger, art,
              future, cancelledIn>>
histVars == <<startTime, seenFailedAt, contacted, fails, lateTry, clashed>>
streamVars == <<storeVars, taskVars, histVars>>

    \* ---- the response cache and the requests that go through it
VARIABLES
    guarded,      \* per distribution: it has a content_guard
    cacheFlag,    \* per base key: the value of DISTRO#GUARD#PRESENT
    cacheEntries, \* the cached responses: <<base key, path>>
    cpc,          \* per request: position in the cached handler
    cpath,        \* per request: request.match_info["path"]
    cpermit,      \* per request: the guard's permit() lets this client pass
    cbk,          \* per request: the base key of the request
    cpresent,     \* per request: the flag as auth_cached read it
    cguard,       \* per request: the local variable `guard` of auth_cached
    cchecked,     \* history: the guard's permit() ran in the auth gate
    coutcome      \* per request: how it ended

cacheVars == <<guarded, cacheFlag, cacheEntries, cpc, cpath, cpermit, cbk,
               cpresent, cguard, cchecked, coutcome>>

    \* ---- one request through the dispatcher
VARIABLES
    drows,        \* the Distribution rows of the database
    dpc,          \* position in Handler._match_and_stream
    dpath,        \* the path of the request
    ddistro,      \* the distribution _match_distribution returned
    dguard,       \* what the guard's permit(request) does for this request
    dhook,        \* what distro.content_handler(rel_path) returns
    dresp,        \* the response, or what was raised
    dinvoked      \* history: the phases invoked after the guard, in order

dispatchVars == <<drows, dpc, dpath, ddistro, dguard, dhook, dresp, dinvoked>>

    \* ---- one request under a checkpoint distribution
VARIABLES
    kpubs,        \* the Publication rows of the database
    know,         \* datetime.now(tz=timezone.utc), in clock ticks
    kdomain,      \* settings.DOMAIN_ENABLED
    kpc,          \* position in the checkpoint branch
    kpath,        \* original_rel_path: the path after the base_path
    kpub,         \* checkpoint_publication: the publication that was selected
    krel,         \* the path relative to the publication
    kresp         \* the response, or what was raised

checkpointVars == <<kpubs, know, kdomain, kpc, kpath, kpub, krel, kresp>>

    \* ---- one remote try with a Range header
VARIABLES
    gsize,        \* remote_artifact.size
    gstart,       \* request.http_range.start
    gstop,        \* request.http_range.stop
    gmalformed,   \* request.http_range raises ValueError
    gpolicy,      \* remote.policy
    gsave,        \* the save_artifact argument
    gmethod,      \* request.method
    gclheader,    \* upstream sends a Content-Length header
    gencoding,    \* upstream sends a Content-Encoding header
    glen,         \* the length of the upstream body
    gsplit,       \* the lengths of the chunks the downloader hands over
    gpc,          \* position in the remote try
    gstatus,      \* response.status
    gactual,      \* actual_content_length
    gclen,        \* response.headers["Content-Length"]
    gcrange,      \* response.headers["Content-Range"]
    gnext,        \* the number of the next chunk
    ghandled,     \* data_size_handled
    gsent,        \* the bytes written to the client, by upstream position
    gdownloader,  \* remote.get_downloader() was called
    gsaved,       \* _save_artifact was called
    gxsize,       \* response.headers["X-PULP-ARTIFACT-SIZE"]
    gfile,        \* the bytes handed to the downloader's own handle_data
    glater        \* the answer to a later request for the same path

\* what is given to one remote try
rangeInputs == <<gsize, gstart, gstop, gmalformed, gpolicy, gsave, gmethod,
                 gclheader, gencoding, glen, gsplit>>

rangeVars == <<rangeInputs, gpc, gstatus, gactual, gclen, gcrange, gnext,
               ghandled, gsent, gdownloader, gsaved, gxsize, gfile, glater>>

    \* ---- one request served from a local artifact
VARIABLES
    asize,        \* content_artifact.artifact.file.size
    arange,       \* request.http_range, or the ValueError it raises
    amethod,      \* request.method
    arelpath,     \* content_artifact.relative_path, as segments
    astorage,     \* domain.storage_class
    aredirect,    \* domain.redirect_to_object_storage
    aexists,      \* os.path.exists(storage.path(artifact_name))
    aheaders,     \* the headers dict handed to _serve_content_artifact
    apc,          \* position of the request
    acounter,     \* artifacts_size_counter
    aadds,        \* the number of artifacts_size_counter.add() calls
    aresp         \* what _serve_content_artifact returns or raises

serveVars == <<asize, arange, amethod, arelpath, astorage, aredirect, aexists,
               aheaders, apc, acounter, aadds, aresp>>

    \* ---- one fetch and its persistence
VARIABLES
    trows,        \* an Artifact row of the content-address is committed
    tcontent,     \* the Content row of the unit is committed
    tcas,         \* the ContentArtifact rows of the unit
    tadding,      \* content_artifact._state.adding (pull-through, first time)
    tpaths,       \* the relative paths init_from_artifact_and_relative_path
                  \* returns artifacts for
    toutcome,     \* how downloader.run() ends
    tsave,        \* the save_artifact argument
    tpolicy,      \* remote.policy
    torphan,      \* orphan cleanup deletes the Artifact row before line 1028
    tpc,          \* position of the fetch
    tnew,         \* the rows this fetch created
    tras,         \* relative paths whose ContentArtifact has a RemoteArtifact
    turls,        \* relative paths remote.get_remote_artifact_url has a url for
    tfinalized,   \* the downloader's original finalize was invoked
    tsent         \* handle_data wrote the bytes to the client

persistVars == <<trows, tcontent, tcas, tadding, tpaths, toutcome, tsave,
                 tpolicy, torphan, tpc, tnew, tras, turls, tfinalized, tsent>>

    \* ---- one path through the path resolver, character by character
VARIABLES
    bpath,        \* the path component of the URL
    brows,        \* the Distribution rows
    bhide,        \* settings.HIDE_GUARDED_DISTRIBUTIONS
    bres,         \* what _match_distribution returned or raised
    bpc           \* position of the resolver

matchVars == <<bpath, brows, bhide, bres, bpc>>

    \* ---- one request in the body of the dispatcher, after the hook
VARIABLES
    vpublished,   \* relative paths of the publication's published artifacts
    vcontent,     \* relative paths of the ContentArtifacts of the version
    vdouble,      \* two content units of the version have the path <<"f">>
    vpublication, \* publication is set
    vversion,     \* repo_version is set
    vsfp,         \* distro.SERVE_FROM_PUBLICATION
    vpass,        \* publication.pass_through
    vremote,      \* distro.remote is set
    vhook,        \* distro.content_handler_list_directory(rel_path)
    vpath,        \* original_rel_path: segments and trailing slash
    vresp,        \* what the dispatcher returned or raised
    vpc           \* position of the dispatcher

branchVars == <<vpublished, vcontent, vdouble, vpublication, vversion, vsfp,
                vpass, vremote, vhook, vpath, vresp, vpc>>

    \* ---- one request at the choice of what to serve from
VARIABLES
    srows,        \* the Publication rows
    slatest,      \* repository.alatest_version(): its number
    srepository,  \* distro.repository
    spublication, \* distro.publication
    sversion,     \* distro.repository_version
    ssfp,         \* distro.SERVE_FROM_PUBLICATION
    sselected,    \* publication and repo_version after line 764
    sbranch,      \* the branch the request enters
    spc           \* position of the dispatcher

sourceVars == <<srows, slatest, srepository, spublication, sversion, ssfp,
                sselected, sbranch, spc>>

    \* ---- one request in the pull-through statements of the dispatcher
VARIABLES
    uurl,         \* remote.get_remote_artifact_url(...) is not None
    ura,          \* a RemoteArtifact of the remote with that url exists
    uartifact,    \* its ContentArtifact has an artifact
    ueligible,    \* RemoteArtifacts of the ContentArtifact outside cooldown
    uupstream,    \* what each upstream answers: 0 for success, else the
                  \* status of its ClientResponseError
    uresp,        \* the response: kind and status
    upc           \* position of the dispatcher

remoteVars == <<uurl, ura, uartifact, ueligible, uupstream, uresp, upc>>

    \* ---- concurrent first pull-through saves of one content unit
VARIABLES
    wart,         \* the committed Artifact rows of the content-address
    wcontent,     \* the committed Content rows of the unit
    wcas,         \* the committed ContentArtifact rows of the unit
    wras,         \* relative paths whose ContentArtifact has a committed
                  \* RemoteArtifact of the remote
    wpaths,       \* the relative paths of the unit's artifacts
    wurls,        \* relative paths the remote has a url for
    wtx,          \* per request: the uncommitted writes of its transaction
    wlist,        \* per request: the local list cas
    wpc           \* per request: position in _save_artifact

pullVars == <<wart, wcontent, wcas, wras, wpaths, wurls, wtx, wlist, wpc>>

\* what the actions of one group leave alone
nonStreamVars == <<cacheVars, dispatchVars, checkpointVars, rangeVars,
                   serveVars, persistVars,
        matchVars, branchVars, sourceVars, remoteVars, pullVars>>
nonCacheVars == <<streamVars, dispatchVars, checkpointVars, rangeVars,
                  serveVars, persistVars,
        matchVars, branchVars, sourceVars, remoteVars, pullVars>>
nonDispatchVars == <<streamVars, cacheVars, checkpointVars, rangeVars,
                     serveVars, persistVars,
        matchVars, branchVars, sourceVars, remoteVars, pullVars>>
nonCheckpointVars == <<streamVars, cacheVars, dispatchVars, rangeVars,
                       serveVars, persistVars,
        matchVars, branchVars, sourceVars, remoteVars, pullVars>>
nonRangeVars == <<streamVars, cacheVars, dispatchVars, checkpointVars,
                  serveVars, persistVars,
        matchVars, branchVars, sourceVars, remoteVars, pullVars>>
nonServeVars == <<streamVars, cacheVars, dispatchVars, checkpointVars,
                  rangeVars, persistVars,
        matchVars, branchVars, sourceVars, remoteVars, pullVars>>

nonPersistVars == <<streamVars, cacheVars, dispatchVars, checkpointVars,
                    rangeVars, serveVars, matchVars, branchVars,
                    sourceVars, remoteVars, pullVars>>

nonMatchVars == <<streamVars, cacheVars, dispatchVars, checkpointVars,
                  rangeVars, serveVars, persistVars, branchVars, sourceVars,
                  remoteVars, pullVars>>

nonBranchVars == <<streamVars, cacheVars, dispatchVars, checkpointVars,
                   rangeVars, serveVars, persistVars, matchVars, sourceVars,
                   remoteVars, pullVars>>

nonSourceVars == <<streamVars, cacheVars, dispatchVars, checkpointVars,
                   rangeVars, serveVars, persistVars, matchVars, branchVars,
                   remoteVars, pullVars>>

nonRemoteVars == <<streamVars, cacheVars, dispatchVars, checkpointVars,
                   rangeVars, serveVars, persistVars, matchVars, branchVars,
                   sourceVars, pullVars>>

nonPullVars == <<streamVars, cacheVars, dispatchVars, checkpointVars,
                 rangeVars, serveVars, persistVars, matchVars, branchVars,
                 sourceVars, remoteVars>>

vars == <<streamVars, cacheVars, dispatchVars, checkpointVars, rangeVars,
          serveVars, persistVars, matchVars, branchVars, sourceVars,
          remoteVars, pullVars>>

(***************************************************************************)
(* Handler._stream_content_artifact: the mirror fallback ladder.           *)
(***************************************************************************)
\* the exceptions the ladder catches to go on with the next RemoteArtifact
SKIPPABLE_EXCEPTIONS ==
    {"ClientResponseError", "UnsupportedDigestValidationError",
     "ClientConnectionError"}

\* what downloader.run() can raise before it has called the headers callback
PreStreamExceptions ==
    {"ClientResponseError", "ClientConnectionError", "TimeoutError"}

\* what downloader.run() can raise while it reads the upstream body
MidStreamExceptions == {"ClientConnectionError", "ClientPayloadError"}

\* .exclude(failed_at__gte=timezone.now() - timedelta(seconds=protection_time))
\* a NULL failed_at is never excluded
ExcludedStrictlyLater(m, t) == failedAt[m] # NoTime /\ failedAt[m] > t - Cooldown

Excluded(m, t) == failedAt[m] # NoTime /\ failedAt[m] >= t - Cooldown

\* remoteartifact_set.order_by_acs().exclude(...), evaluated at time t
RemoteArtifacts(t) ==
    SelectSeq([i \in 1..NumMirrors |-> i], LAMBDA m : ~Excluded(m, t))

\* the RemoteArtifact of the current iteration of the async for
CurAlwaysFirst(p) == elig[p][1]

Cur(p) == elig[p][idx[p]]

\* the upstream body of mirror m, as the chunks handle_data is called with
Chunk(m, i) == <<m, i>>

\* lines 974-980 and 992: build and evaluate the queryset, enter the loop or
\* raise HTTPNotFound when it is empty. The dispatcher calls the ladder for a
\* ContentArtifact without an artifact (lines 805-810).
StreamContentArtifact(p) ==
    /\ pc[p] = "idle"
    /\ caArtifact = NoArtifact
    /\ LET ras == RemoteArtifacts(now) IN
        /\ elig' = [elig EXCEPT ![p] = ras]
        /\ startTime' = [startTime EXCEPT ![p] = now]
        /\ seenFailedAt' = [seenFailedAt EXCEPT ![p] = failedAt]
        /\ IF ras = << >>
           THEN /\ pc' = [pc EXCEPT ![p] = "done"]
                /\ result' = [result EXCEPT ![p] = "HTTPNotFound"]
                /\ idx' = idx
           ELSE /\ pc' = [pc EXCEPT ![p] = "try"]
                /\ idx' = [idx EXCEPT ![p] = 1]
                /\ result' = result
    /\ UNCHANGED <<storeVars, chunks, prepared, body, eof, linger, art, future,
                   cancelledIn, contacted, fails, lateTry, clashed>>
    /\ UNCHANGED nonStreamVars

\* an exception e leaves _stream_remote_artifact inside the try of the loop:
\* lines 984-992. A skippable one continues with the next RemoteArtifact, or
\* ends the loop with HTTPNotFound; any other one propagates.
SkipsResponseErrorOnly(e) == e = "ClientResponseError"

Skips(e) == e \in SKIPPABLE_EXCEPTIONS

Raise(p, e) ==
    /\ fails' = [fails EXCEPT ![p] = Append(@, <<Cur(p), e, prepared[p]>>)]
    /\ chunks' = [chunks EXCEPT ![p] = 0]
    /\ IF Skips(e)
       THEN IF idx[p] < Len(elig[p])
            THEN /\ idx' = [idx EXCEPT ![p] = @ + 1]
                 /\ pc' = [pc EXCEPT ![p] = "try"]
                 /\ result' = result
            ELSE /\ pc' = [pc EXCEPT ![p] = "done"]
                 /\ result' = [result EXCEPT ![p] = "HTTPNotFound"]
                 /\ idx' = idx
       ELSE /\ pc' = [pc EXCEPT ![p] = "done"]
            /\ result' = [result EXCEPT ![p] = e]
            /\ idx' = idx

(***************************************************************************)
(* Handler._stream_remote_artifact: one remote try (a GET without Range).  *)
(***************************************************************************)
\* lines 1303-1310: remote.get_downloader(); the downloader's constructor
\* raises UnsupportedDigestValidationError when no allowed digest is known
AcquireDownloader(p) ==
    /\ pc[p] = "try"
    /\ contacted' = [contacted EXCEPT ![p] = @ \cup {Cur(p)}]
    /\ lateTry' = [lateTry EXCEPT ![p] = @ \/ prepared[p]]
    /\ UNCHANGED clashed
    /\ pc' = [pc EXCEPT ![p] = "run"]
    /\ UNCHANGED <<storeVars, elig, idx, chunks, prepared, body, result, eof,
                   linger, art, future, cancelledIn, startTime, seenFailedAt,
                   fails>>
    /\ UNCHANGED nonStreamVars

UnsupportedDigest(p) ==
    /\ pc[p] = "try"
    /\ contacted' = [contacted EXCEPT ![p] = @ \cup {Cur(p)}]
    /\ lateTry' = [lateTry EXCEPT ![p] = @ \/ prepared[p]]
    /\ UNCHANGED clashed
    /\ Raise(p, "UnsupportedDigestValidationError")
    /\ UNCHANGED <<storeVars, elig, prepared, body, eof, linger, art, future,
                   cancelledIn, startTime, seenFailedAt>>
    /\ UNCHANGED nonStreamVars

\* line 1312, downloader.run() up to the upstream headers: the connection or
\* the upstream status fails, or the headers arrive and
\* handle_response_headers (lines 1236-1269) prepares the response; a
\* downloader that knows no headers callback goes on without it
DownloaderFails(p) ==
    /\ pc[p] = "run"
    /\ \E e \in PreStreamExceptions : Raise(p, e)
    /\ UNCHANGED <<storeVars, elig, prepared, body, eof, linger, art, future,
                   cancelledIn, startTime, seenFailedAt, contacted, lateTry, clashed>>
    /\ UNCHANGED nonStreamVars

HandleResponseHeaders(p) ==
    /\ pc[p] = "run"
    /\ \E callback \in BOOLEAN :
          prepared' = [prepared EXCEPT ![p] = @ \/ callback]
    /\ pc' = [pc EXCEPT ![p] = "stream"]
    /\ UNCHANGED <<storeVars, elig, idx, chunks, body, result, eof, linger, art,
                   future, cancelledIn, histVars>>
    /\ UNCHANGED nonStreamVars

\* lines 1273-1297, handle_data: prepare the response if nobody did, write
\* the chunk to the client
HandleData(p) ==
    /\ pc[p] = "stream"
    /\ chunks[p] < NumChunks
    /\ prepared' = [prepared EXCEPT ![p] = TRUE]
    /\ body' = [body EXCEPT ![p] = Append(@, Chunk(Cur(p), chunks[p] + 1))]
    /\ chunks' = [chunks EXCEPT ![p] = @ + 1]
    /\ UNCHANGED <<storeVars, pc, elig, idx, result, eof, linger, art, future,
                   cancelledIn, histVars>>
    /\ UNCHANGED nonStreamVars

\* downloader.run() fails while the body is read
StreamFails(p) ==
    /\ pc[p] = "stream"
    /\ \E e \in MidStreamExceptions : Raise(p, e)
    /\ UNCHANGED <<storeVars, elig, prepared, body, eof, linger, art, future,
                   cancelledIn, startTime, seenFailedAt, contacted, lateTry, clashed>>
    /\ UNCHANGED nonStreamVars

\* lines 1311-1332: the downloader finished the body and its finalize()
\* validated the digests: DigestValidationError stamps failed_at, sets
\* SO_LINGER on the client socket and raises RuntimeError, which the ladder
\* does not catch. (setsockopt is taken to succeed on the client's socket.)
NotStamped(p) == failedAt

StampedFailedAt(p) == [failedAt EXCEPT ![Cur(p)] = now]

close_tcp_connection(p) == [linger EXCEPT ![p] = TRUE]

DigestValidationFails(p) ==
    /\ pc[p] = "stream"
    /\ chunks[p] = NumChunks
    /\ failedAt' = StampedFailedAt(p)
    /\ linger' = close_tcp_connection(p)
    /\ fails' = [fails EXCEPT
                   ![p] = Append(@, <<Cur(p), "DigestValidationError", prepared[p]>>)]
    /\ result' = [result EXCEPT ![p] = "RuntimeError"]
    /\ pc' = [pc EXCEPT ![p] = "done"]
    /\ UNCHANGED <<now, rows, pendingRow, caArtifact, files, unlinked,
                   cacheEnabled, reqs, elig, idx, chunks, prepared, body, eof,
                   art, future, cancelledIn, startTime, seenFailedAt, contacted,
                   lateTry, clashed>>
    /\ UNCHANGED nonStreamVars

\* line 1312 returns: download_result.path is a file on disk; with
\* save_artifact (the ladder's default) and a policy other than streamed the
\* persistence phase follows (line 1334)
DownloadSucceeds(p) ==
    /\ pc[p] = "stream"
    /\ chunks[p] = NumChunks
    /\ files' = files \cup {p}
    /\ pc' = [pc EXCEPT ![p] = "persist"]
    /\ UNCHANGED <<now, failedAt, rows, pendingRow, caArtifact, unlinked,
                   cacheEnabled, reqs, elig, idx, chunks, prepared, body, result, eof,
                   linger, art, future, cancelledIn, histVars>>
    /\ UNCHANGED nonStreamVars

(***************************************************************************)
(* Handler._save_artifact, on-demand branch (content_artifact is a saved   *)
(* row). It runs in one database transaction (line 1022); the store shows  *)
(* its writes when the transaction commits.                                *)
(***************************************************************************)
\* Artifact(**download_result.artifact_attributes, file=download_result.path)
NewArtifact(p) == [id |-> p, file |-> p]

\* the unique constraint on the content-address: a committed row exists
UniqueViolation == rows # {}

\* the committed rows right after artifact.save() of line 1025: the INSERT
\* is inside the transaction of line 1022, nothing is committed yet
RowsAfterInsert(p) == rows

\* lines 1020-1026, artifact.save(): an INSERT waits while another
\* transaction holds an uncommitted row of the same content-address, then
\* succeeds or hits the unique violation
ArtifactSave(p) ==
    /\ pc[p] = "persist"
    /\ \A q \in Proc \ {p} : ~pendingRow[q]
    /\ IF UniqueViolation
       THEN /\ pc' = [pc EXCEPT ![p] = "integrity"]
            /\ clashed' = [clashed EXCEPT ![p] = TRUE]
            /\ UNCHANGED <<rows, pendingRow, art>>
       ELSE /\ pendingRow' = [pendingRow EXCEPT ![p] = TRUE]
            /\ rows' = RowsAfterInsert(p)
            /\ art' = [art EXCEPT ![p] = NewArtifact(p).id]
            /\ pc' = [pc EXCEPT ![p] = "link"]
            /\ UNCHANGED clashed
    /\ UNCHANGED <<now, failedAt, caArtifact, files, unlinked, cacheEnabled,
                   reqs, elig, idx, chunks, prepared, body, result, eof, linger,
                   future, cancelledIn, startTime, seenFailedAt, contacted,
                   fails, lateTry>>
    /\ UNCHANGED nonStreamVars

\* line 1028: artifact = Artifact.objects.get(artifact.q())
KeptArtifact(p) == NewArtifact(p).id

ExistingArtifact(p) == (CHOOSE r \in rows : TRUE).id

\* line 1041: os.unlink(download_result.path)
UnlinkSkipped(p) == files

Unlink(p) == files \ {p}

\* lines 1026-1041, except IntegrityError: the existing row is found and
\* touched and the fresh file unlinked; when the row is gone (orphan
\* cleanup), a new Artifact is saved from the downloaded file
IntegrityErrorHandler(p) ==
    /\ pc[p] = "integrity"
    /\ IF rows # {}
       THEN /\ art' = [art EXCEPT ![p] = ExistingArtifact(p)]
            /\ files' = Unlink(p)
            /\ unlinked' = unlinked \cup (files \ files')
            /\ UNCHANGED pendingRow
       ELSE /\ \A q \in Proc \ {p} : ~pendingRow[q]
            /\ pendingRow' = [pendingRow EXCEPT ![p] = TRUE]
            /\ art' = [art EXCEPT ![p] = NewArtifact(p).id]
            /\ UNCHANGED <<files, unlinked>>
    /\ pc' = [pc EXCEPT ![p] = "link"]
    /\ UNCHANGED <<now, failedAt, rows, caArtifact, cacheEnabled, reqs, elig,
                   idx, chunks, prepared, body, result, eof, linger, future,
                   cancelledIn, histVars>>
    /\ UNCHANGED nonStreamVars

\* lines 1087-1090 and the end of the transaction of line 1022:
\* content_artifact.artifact = artifact; content_artifact.save(); COMMIT.
\* The thread of a task that was cancelled meanwhile ends here.
LinkContentArtifact(p) ==
    /\ pc[p] = "link"
    /\ rows' = rows \cup (IF pendingRow[p] THEN {NewArtifact(p)} ELSE {})
    /\ pendingRow' = [pendingRow EXCEPT ![p] = FALSE]
    /\ caArtifact' = art[p]
    /\ pc' = [pc EXCEPT ![p] = IF cancelledIn[p] = "none" THEN "saved" ELSE "done"]
    /\ UNCHANGED <<now, failedAt, files, unlinked, cacheEnabled, reqs, elig,
                   idx, chunks, prepared, body, result, eof, linger, art, future,
                   cancelledIn, histVars>>
    /\ UNCHANGED nonStreamVars

(***************************************************************************)
(* Handler._stream_remote_artifact after the persistence phase.            *)
(***************************************************************************)
\* lines 1338-1346: with the cache enabled the rebuilt response of the saved
\* artifact is attached (the ladder passes no repository: no pull-through add)
FutureResponseMissing(p) == FALSE

FutureResponse(p) == cacheEnabled

AttachFutureResponse(p) ==
    /\ pc[p] = "saved"
    /\ future' = [future EXCEPT ![p] = FutureResponse(p)]
    /\ pc' = [pc EXCEPT ![p] = "eof"]
    /\ UNCHANGED <<storeVars, elig, idx, chunks, prepared, body, result, eof,
                   linger, art, cancelledIn, histVars>>
    /\ UNCHANGED nonStreamVars

\* write_eof() not held back by the await of line 1335
WriteEofBeforeSave(p) ==
    /\ pc[p] \in {"persist", "eof"}
    /\ eof' = [eof EXCEPT ![p] = TRUE]
    /\ result' = [result EXCEPT ![p] = "ok"]
    /\ pc' = [pc EXCEPT ![p] = IF pc[p] = "eof" THEN "done" ELSE @]
    /\ UNCHANGED <<storeVars, elig, idx, chunks, prepared, body, linger, art,
                   future, cancelledIn, histVars>>
    /\ UNCHANGED nonStreamVars

\* lines 1347-1351: write_eof(), return the response (its status is not 404)
WriteEof(p) ==
    /\ pc[p] = "eof"
    /\ eof' = [eof EXCEPT ![p] = TRUE]
    /\ result' = [result EXCEPT ![p] = "ok"]
    /\ pc' = [pc EXCEPT ![p] = "done"]
    /\ UNCHANGED <<storeVars, elig, idx, chunks, prepared, body, linger, art,
                   future, cancelledIn, histVars>>
    /\ UNCHANGED nonStreamVars

(***************************************************************************)
(* The client disconnects: the request task is cancelled at its current    *)
(* await. asyncio.shield (line 1335) keeps the persistence running; the    *)
(* awaiting task itself gets CancelledError and runs no further line.      *)
(***************************************************************************)
PersistPcs == {"persist", "integrity", "link"}

\* line 1335: the awaited call is wrapped in asyncio.shield
Unshielded(p) == FALSE

Shielded(p) == pc[p] \in PersistPcs

Phase(p) ==
    IF pc[p] \in PersistPcs THEN "persist"
    ELSE IF pc[p] \in {"saved", "eof"} THEN "post" ELSE "download"

Cancel(p) ==
    /\ pc[p] \in {"try", "run", "stream", "saved", "eof"} \cup PersistPcs
    /\ cancelledIn[p] = "none"
    /\ cancelledIn' = [cancelledIn EXCEPT ![p] = Phase(p)]
    /\ result' = [result EXCEPT ![p] = "CancelledError"]
    /\ IF Shielded(p)
       THEN UNCHANGED <<pc, pendingRow>>
       ELSE /\ pc' = [pc EXCEPT ![p] = "done"]
            /\ pendingRow' = [pendingRow EXCEPT ![p] = FALSE]
    /\ UNCHANGED <<now, failedAt, rows, caArtifact, files, unlinked,
                   cacheEnabled, reqs, elig, idx, chunks, prepared, body, eof,
                   linger, art, future, histVars>>
    /\ UNCHANGED nonStreamVars

\* time passes
Tick ==
    /\ now < MaxTime
    /\ now' = now + 1
    /\ UNCHANGED <<failedAt, rows, pendingRow, caArtifact, files, unlinked,
                   cacheEnabled, reqs, taskVars, histVars>>
    /\ UNCHANGED nonStreamVars

\* lines 805-806: a ContentArtifact that has its artifact is served from
\* storage, no mirror is asked
ServeContentArtifact(p) ==
    /\ pc[p] = "idle"
    /\ caArtifact # NoArtifact
    /\ result' = [result EXCEPT ![p] = "local"]
    /\ pc' = [pc EXCEPT ![p] = "done"]
    /\ UNCHANGED <<storeVars, elig, idx, chunks, prepared, body, eof, linger,
                   art, future, cancelledIn, histVars>>
    /\ UNCHANGED nonStreamVars

\* the task slot of a finished request takes the next request
NewRequest(p) ==
    /\ pc[p] = "done"
    /\ reqs < MaxRequests
    /\ reqs' = reqs + 1
    /\ pc' = [pc EXCEPT ![p] = "idle"]
    /\ elig' = [elig EXCEPT ![p] = << >>]
    /\ idx' = [idx EXCEPT ![p] = 0]
    /\ chunks' = [chunks EXCEPT ![p] = 0]
    /\ prepared' = [prepared EXCEPT ![p] = FALSE]
    /\ body' = [body EXCEPT ![p] = << >>]
    /\ result' = [result EXCEPT ![p] = "none"]
    /\ eof' = [eof EXCEPT ![p] = FALSE]
    /\ linger' = [linger EXCEPT ![p] = FALSE]
    /\ art' = [art EXCEPT ![p] = NoArtifact]
    /\ future' = [future EXCEPT ![p] = FALSE]
    /\ cancelledIn' = [cancelledIn EXCEPT ![p] = "none"]
    /\ startTime' = [startTime EXCEPT ![p] = 0]
    /\ seenFailedAt' = [seenFailedAt EXCEPT ![p] = [m \in Mirrors |-> NoTime]]
    /\ contacted' = [contacted EXCEPT ![p] = {}]
    /\ fails' = [fails EXCEPT ![p] = << >>]
    /\ lateTry' = [lateTry EXCEPT ![p] = FALSE]
    /\ clashed' = [clashed EXCEPT ![p] = FALSE]
    /\ UNCHANGED <<now, failedAt, rows, pendingRow, caArtifact, files, unlinked,
                   cacheEnabled>>
    /\ UNCHANGED nonStreamVars

InitCacheIdle ==
    /\ cacheFlag = [bk \in BaseKeys |-> "None"]
    /\ cacheEntries = {}
    /\ cpath = [r \in Proc |-> [segs |-> <<"a">>, slash |-> FALSE]]
    /\ cpermit = [r \in Proc |-> FALSE]
    /\ cbk = [r \in Proc |-> << >>]
    /\ cpresent = [r \in Proc |-> "None"]
    /\ cguard = [r \in Proc |-> "False"]
    /\ cchecked = [r \in Proc |-> FALSE]
    /\ coutcome = [r \in Proc |-> "none"]

\* the cache group at rest, for the specifications that do not move it
InitCacheRest ==
    /\ guarded = [d \in Distributions |-> FALSE]
    /\ cpc = [r \in Proc |-> "unused"]
    /\ InitCacheIdle

\* the dispatcher group at rest
InitDispatchRest ==
    /\ drows = {}
    /\ dpc = "unused"
    /\ dpath = EmptyPath
    /\ ddistro = NoDistro
    /\ dguard = "permit"
    /\ dhook = "None"
    /\ dresp = NoResponse
    /\ dinvoked = << >>

\* the checkpoint group at rest
InitCheckpointRest ==
    /\ kpubs = {}
    /\ know = 0
    /\ kdomain = FALSE
    /\ kpc = "unused"
    /\ kpath = EmptyPath
    /\ kpub = NoPublication
    /\ krel = EmptyPath
    /\ kresp = NoResponse

\* the answer to a later request: how it was answered, the body and the
\* X-PULP-ARTIFACT-SIZE header
Later(kind, bytes, size) == [kind |-> kind, bytes |-> bytes, size |-> size]

\* no later request yet
NoLater == Later("none", << >>, None)

\* the range group at rest
InitRangeRest ==
    /\ gsize = None
    /\ gstart = None
    /\ gstop = None
    /\ gmalformed = FALSE
    /\ gpolicy = "on_demand"
    /\ gsave = TRUE
    /\ gmethod = "GET"
    /\ gclheader = TRUE
    /\ gencoding = FALSE
    /\ glen = 0
    /\ gsplit = << >>
    /\ gpc = "unused"
    /\ gstatus = 200
    /\ gactual = None
    /\ gclen = None
    /\ gcrange = << >>
    /\ gnext = 1
    /\ ghandled = 0
    /\ gsent = << >>
    /\ gdownloader = FALSE
    /\ gsaved = FALSE
    /\ gxsize = None
    /\ gfile = << >>
    /\ glater = NoLater

\* request.http_range without a Range header: slice(None, None)
NoRange == [kind |-> "none", start |-> 0, stop |-> 0]

\* a headers dict: "" and None stand for a header that is not set
Headers(content_type, content_disposition, size) ==
    [ContentType |-> content_type, ContentDisposition |-> content_disposition,
     XPulpArtifactSize |-> size]

\* the Content-Range of a response that has none
NoContentRange == << >>

\* what _serve_content_artifact returns or raises
ArtifactResult(kind, headers, parameters, content_range) ==
    [kind |-> kind, status |-> StatusOf(kind), headers |-> headers,
     parameters |-> parameters, content_range |-> content_range]

\* the artifact responder group at rest
InitServeRest ==
    /\ asize = 0
    /\ arange = NoRange
    /\ amethod = "GET"
    /\ arelpath = << >>
    /\ astorage = ""
    /\ aredirect = FALSE
    /\ aexists = FALSE
    /\ aheaders = Headers("", "", None)
    /\ apc = "unused"
    /\ acounter = 0
    /\ aadds = 0
    /\ aresp = ArtifactResult("none", Headers("", "", None), {}, NoContentRange)

\* the rows one fetch created
NewRows(artifacts, contents, content_artifacts) ==
    [Artifact |-> artifacts, Content |-> contents,
     ContentArtifact |-> content_artifacts]

\* the persistence group at rest
InitPersistRest ==
    /\ trows = FALSE
    /\ tcontent = FALSE
    /\ tcas = {}
    /\ tadding = FALSE
    /\ tpaths = {}
    /\ toutcome = "ok"
    /\ tsave = TRUE
    /\ tpolicy = "on_demand"
    /\ torphan = FALSE
    /\ tpc = "unused"
    /\ tnew = NewRows(0, 0, 0)
    /\ tras = {}
    /\ turls = {}
    /\ tfinalized = FALSE
    /\ tsent = FALSE

\* what the path resolver returns or raises
MatchResult(kind, base_path, listing, location) ==
    [kind |-> kind, base_path |-> base_path, listing |-> listing,
     location |-> location]

\* the path resolver at rest
InitMatchRest ==
    /\ bpath = << >>
    /\ brows = {}
    /\ bhide = FALSE
    /\ bres = MatchResult("none", << >>, {}, << >>)
    /\ bpc = "unused"

\* what the body of the dispatcher returns or raises: the stage that decided,
\* the relative path of the ContentArtifact, the names of a listing
BranchResult(kind, stage, relative_path, listing) ==
    [kind |-> kind, stage |-> stage, relative_path |-> relative_path,
     listing |-> listing]

NoBranchResult == BranchResult("none", "none", << >>, {})

\* the body of the dispatcher at rest
InitBranchRest ==
    /\ vpublished = {}
    /\ vcontent = {}
    /\ vdouble = FALSE
    /\ vpublication = FALSE
    /\ vversion = FALSE
    /\ vsfp = FALSE
    /\ vpass = FALSE
    /\ vremote = FALSE
    /\ vhook = {}
    /\ vpath = [segs |-> << >>, slash |-> TRUE]
    /\ vresp = NoBranchResult
    /\ vpc = "unused"

\* publication and repo_version of the dispatcher; None for neither
Source(publication, repo_version) ==
    [publication |-> publication, repo_version |-> repo_version]

\* lines 766 and 841: the branch the request enters
BranchOfIgnoringFlag(selected, serve_from_publication) ==
    IF selected.publication # None THEN "publication"
    ELSE IF selected.repo_version # None THEN "version"
    ELSE "none"
BranchOf(selected, serve_from_publication) ==
    IF selected.publication # None THEN "publication"
    ELSE IF selected.repo_version # None /\ ~serve_from_publication
    THEN "version"
    ELSE "none"

\* the choice of the source at rest
InitSourceRest ==
    /\ srows = {}
    /\ slatest = 0
    /\ srepository = None
    /\ spublication = None
    /\ sversion = None
    /\ ssfp = FALSE
    /\ sselected = Source(None, None)
    /\ sbranch = "none"
    /\ spc = "unused"

\* a response of the pull-through statements
RemoteResponse(kind, status) == [kind |-> kind, status |-> status]

\* the pull-through statements at rest
InitRemoteRest ==
    /\ uurl = FALSE
    /\ ura = FALSE
    /\ uartifact = FALSE
    /\ ueligible = 0
    /\ uupstream = << >>
    /\ uresp = RemoteResponse("none", 0)
    /\ upc = "unused"

\* the uncommitted writes of one transaction
Writes(artifact, content, cas, ras) ==
    [artifact |-> artifact, content |-> content, cas |-> cas, ras |-> ras]

\* the concurrent pull-through saves at rest
InitPullRest ==
    /\ wart = {}
    /\ wcontent = {}
    /\ wcas = {}
    /\ wras = {}
    /\ wpaths = {}
    /\ wurls = {}
    /\ wtx = [p \in Proc |-> Writes(FALSE, FALSE, {}, {})]
    /\ wlist = [p \in Proc |-> {}]
    /\ wpc = [p \in Proc |-> "unused"]

(***************************************************************************)
(* SpecLadder: requests for one ContentArtifact without a local artifact   *)
(* arrive one after the other (task slot 1; the other slots stay unused).  *)
(* The store may hold failure stamps of earlier requests and an Artifact   *)
(* row of the same content-address that another ContentArtifact brought in.*)
(***************************************************************************)
InitStore ==
    /\ now = 0
    /\ \E old \in BOOLEAN :
          /\ rows = IF old THEN {[id |-> OldArtifact, file |-> OldArtifact]} ELSE {}
          /\ files = (IF old THEN {OldArtifact} ELSE {})
                     \cup {p \in Proc : pc[p] = "persist"}
    /\ pendingRow = [p \in Proc |-> FALSE]
    /\ caArtifact = NoArtifact
    /\ unlinked = {}
    /\ cacheEnabled \in BOOLEAN

InitTask ==
    /\ idx = [p \in Proc |-> IF pc[p] = "persist" THEN 1 ELSE 0]
    /\ elig = [p \in Proc |->
                 IF pc[p] = "persist" THEN [i \in 1..NumMirrors |-> i] ELSE << >>]
    /\ chunks = [p \in Proc |-> IF pc[p] = "persist" THEN NumChunks ELSE 0]
    /\ prepared = [p \in Proc |-> pc[p] = "persist"]
    /\ body = [p \in Proc |->
                 IF pc[p] = "persist" THEN [i \in 1..NumChunks |-> Chunk(1, i)]
                 ELSE << >>]
    /\ result = [p \in Proc |-> "none"]
    /\ eof = [p \in Proc |-> FALSE]
    /\ linger = [p \in Proc |-> FALSE]
    /\ art = [p \in Proc |-> NoArtifact]
    /\ future = [p \in Proc |-> FALSE]
    /\ cancelledIn = [p \in Proc |-> "none"]
    /\ startTime = [p \in Proc |-> 0]
    /\ seenFailedAt = [p \in Proc |-> [m \in Mirrors |-> NoTime]]
    /\ contacted = [p \in Proc |-> IF pc[p] = "persist" THEN {1} ELSE {}]
    /\ fails = [p \in Proc |-> << >>]
    /\ lateTry = [p \in Proc |-> FALSE]
    /\ clashed = [p \in Proc |-> FALSE]

InitLadder ==
    /\ pc = [p \in Proc |-> IF p = 1 THEN "idle" ELSE "unused"]
    /\ reqs = 1
    /\ failedAt \in [Mirrors -> {NoTime, 0}]
    /\ InitStore
    /\ InitTask
    /\ InitCacheRest
    /\ InitDispatchRest
    /\ InitCheckpointRest
    /\ InitRangeRest
    /\ InitServeRest
    /\ InitPersistRest
    /\ InitMatchRest
    /\ InitBranchRest
    /\ InitSourceRest
    /\ InitRemoteRest
    /\ InitPullRest

NextLadder ==
    \/ Tick
    \/ \E p \in Proc :
        \/ StreamContentArtifact(p)
        \/ ServeContentArtifact(p)
        \/ AcquireDownloader(p)
        \/ UnsupportedDigest(p)
        \/ DownloaderFails(p)
        \/ HandleResponseHeaders(p)
        \/ HandleData(p)
        \/ StreamFails(p)
        \/ DigestValidationFails(p)
        \/ DownloadSucceeds(p)
        \/ ArtifactSave(p)
        \/ IntegrityErrorHandler(p)
        \/ LinkContentArtifact(p)
        \/ AttachFutureResponse(p)
        \/ WriteEof(p)
        \/ Cancel(p)
        \/ NewRequest(p)

SpecLadder == InitLadder /\ [][NextLadder]_vars

(***************************************************************************)
(* SpecSave: NumProc requests were each streamed the missing artifact by   *)
(* mirror 1 and enter the persistence phase together.                      *)
(***************************************************************************)
InitSave ==
    /\ pc = [p \in Proc |-> "persist"]
    /\ reqs = NumProc
    /\ failedAt = [m \in Mirrors |-> NoTime]
    /\ InitStore
    /\ InitTask
    /\ InitCacheRest
    /\ InitDispatchRest
    /\ InitCheckpointRest
    /\ InitRangeRest
    /\ InitServeRest
    /\ InitPersistRest
    /\ InitMatchRest
    /\ InitBranchRest
    /\ InitSourceRest
    /\ InitRemoteRest
    /\ InitPullRest

NextSave ==
    \E p \in Proc :
        \/ ArtifactSave(p)
        \/ IntegrityErrorHandler(p)
        \/ LinkContentArtifact(p)
        \/ AttachFutureResponse(p)
        \/ WriteEof(p)
        \/ Cancel(p)

SpecSave == InitSave /\ [][NextSave]_vars

(***************************************************************************)
(* SpecSaveFails: the requests of SpecSave when _save_artifact can raise.  *)
(***************************************************************************)
\* lines 1335-1337: an exception of a statement of _save_artifact undoes
\* the transaction and leaves _stream_remote_artifact at the await
SaveArtifactRaises(p) ==
    /\ pc[p] \in PersistPcs
    /\ pendingRow' = [pendingRow EXCEPT ![p] = FALSE]
    /\ result' = [result EXCEPT ![p] =
                     IF cancelledIn[p] = "none" THEN "DatabaseError" ELSE @]
    /\ pc' = [pc EXCEPT ![p] = "done"]
    /\ UNCHANGED <<now, failedAt, rows, caArtifact, files, unlinked,
                   cacheEnabled, reqs, elig, idx, chunks, prepared, body, eof,
                   linger, art, future, cancelledIn, histVars>>
    /\ UNCHANGED nonStreamVars

NextSaveFails ==
    \/ NextSave
    \/ \E p \in Proc : SaveArtifactRaises(p)

SpecSaveFails == InitSave /\ [][NextSaveFails]_vars

(***************************************************************************)
(* SpecOrphan: the requests of SpecSave while orphan cleanup runs: it      *)
(* deletes, row and file, an Artifact that no ContentArtifact references.  *)
(***************************************************************************)
\* line 1029, artifact.touch(): the UPDATE of the row found at line 1028
\* holds the row until the transaction of line 1022 ends
TouchedNever(r) == FALSE
Touched(r) == \E p \in Proc : pc[p] = "link" /\ ~pendingRow[p] /\ art[p] = r.id

\* a row deleted between the get and the touch of lines 1028-1029 makes
\* touch() raise DatabaseError: the same fallback as a row deleted before
OrphanCleanup ==
    /\ \E r \in rows :
          /\ r.id # caArtifact
          /\ ~Touched(r)
          /\ rows' = rows \ {r}
          /\ files' = files \ {r.file}
    /\ UNCHANGED <<now, failedAt, pendingRow, caArtifact, unlinked,
                   cacheEnabled, reqs, taskVars, histVars>>
    /\ UNCHANGED nonStreamVars

NextOrphan ==
    \/ \E p \in Proc :
          \/ ArtifactSave(p)
          \/ IntegrityErrorHandler(p)
          \/ LinkContentArtifact(p)
          \/ AttachFutureResponse(p)
          \/ WriteEof(p)
    \/ OrphanCleanup

SpecOrphan == InitSave /\ [][NextOrphan]_vars

(***************************************************************************)
(* The path resolver, as far as the cache needs it. A path is its segments *)
(* and whether it ends in a slash: "foo/bar/" is <<"foo","bar">> with      *)
(* slash. A base_path is a sequence of segments.                           *)
(***************************************************************************)
\* Handler._base_paths: os.path.split()[0] until nothing is left, longest first
BasePaths(path) ==
    LET top == IF path.slash THEN Len(path.segs) ELSE Len(path.segs) - 1
    IN  [i \in 1..top |-> SubSeq(path.segs, 1, top - i + 1)]

\* a proper prefix, segment by segment
IsProperPrefix(a, b) == Len(a) < Len(b) /\ SubSeq(b, 1, Len(a)) = a

\* Handler._match_distribution
MatchDistribution(path, add_trailing_slash) ==
    LET q == IF ~path.slash /\ add_trailing_slash
             THEN [path EXCEPT !.slash = TRUE] ELSE path
        bps == BasePaths(q)
        hits == {d \in Distributions : \E i \in DOMAIN bps : bps[i] = d}
    IN  IF Cardinality(hits) = 1
        THEN [kind |-> "distro", base |-> CHOOSE d \in hits : TRUE]
        ELSE IF hits # {}
        THEN [kind |-> "MultipleObjectsReturned", base |-> << >>]
        ELSE IF q.slash /\ \E d \in Distributions : IsProperPrefix(q.segs, d)
        THEN [kind |-> IF path.slash THEN "DistroListings"
                       ELSE "HTTPMovedPermanently",
              base |-> << >>]
        ELSE [kind |-> "PathNotResolved", base |-> << >>]

(***************************************************************************)
(* The response cache around Handler.stream_content (AsyncContentCache):   *)
(* base key, auth gate, lookup, and on a miss the handler and the new      *)
(* entry. All fields of one base key live and expire together.             *)
(***************************************************************************)
ADD_TRAILING_SLASH == TRUE

\* cached.exists(base_key=...) for one key
Exists(bk) == cacheFlag[bk] # "None" \/ \E e \in cacheEntries : e[1] = bk

\* cached.exists(base_key=multiplied_base_paths): the number of the keys that
\* exist, the base path at index i counted i+1 times (here i is 1-based)
IndexP1Unmultiplied(bps) ==
    LET S[i \in 0..Len(bps)] ==
            IF i = 0 THEN 0 ELSE S[i - 1] + (IF Exists(bps[i]) THEN 1 ELSE 0)
    IN  S[Len(bps)]
IndexP1(bps) ==
    LET S[i \in 0..Len(bps)] ==
            IF i = 0 THEN 0 ELSE S[i - 1] + (IF Exists(bps[i]) THEN i ELSE 0)
    IN  S[Len(bps)]

\* a request arrives
Arrive(r) ==
    /\ cpc[r] = "idle"
    /\ \E q \in ReqPaths, ok \in BOOLEAN :
          /\ cpath' = [cpath EXCEPT ![r] = q]
          /\ cpermit' = [cpermit EXCEPT ![r] = ok]
    /\ cpc' = [cpc EXCEPT ![r] = "basekey"]
    /\ UNCHANGED <<guarded, cacheFlag, cacheEntries, cbk, cpresent, cguard,
                   cchecked, coutcome>>
    /\ UNCHANGED nonCacheVars

\* Handler.find_base_path_cached
FindBasePathCached(r) ==
    /\ cpc[r] = "basekey"
    /\ LET bps == BasePaths(cpath[r])
           index_p1 == IndexP1(bps)
           distro == MatchDistribution(cpath[r], ADD_TRAILING_SLASH)
       IN  IF index_p1 # 0
           THEN IF index_p1 \in DOMAIN bps
                THEN /\ cbk' = [cbk EXCEPT ![r] = bps[index_p1]]
                     /\ cpc' = [cpc EXCEPT ![r] = "authget"]
                     /\ coutcome' = coutcome
                ELSE /\ coutcome' = [coutcome EXCEPT ![r] = "IndexError"]
                     /\ cpc' = [cpc EXCEPT ![r] = "done"]
                     /\ cbk' = cbk
           ELSE IF distro.kind = "distro"
                THEN /\ cbk' = [cbk EXCEPT ![r] = distro.base]
                     /\ cpc' = [cpc EXCEPT ![r] = "authget"]
                     /\ coutcome' = coutcome
                ELSE /\ coutcome' = [coutcome EXCEPT ![r] = distro.kind]
                     /\ cpc' = [cpc EXCEPT ![r] = "done"]
                     /\ cbk' = cbk
    /\ UNCHANGED <<guarded, cacheFlag, cacheEntries, cpath, cpermit, cpresent,
                   cguard, cchecked>>
    /\ UNCHANGED nonCacheVars

\* Handler.auth_cached, lines 258-260: read the flag; the guard check runs
\* when it is absent or True
NeedsGuardCheckAbsentOnly(present) == present = "None"

NeedsGuardCheck(present) == present = "True" \/ present = "None"

AuthGet(r) ==
    /\ cpc[r] = "authget"
    /\ cpresent' = [cpresent EXCEPT ![r] = cacheFlag[cbk[r]]]
    /\ cpc' = [cpc EXCEPT ![r] =
                 IF NeedsGuardCheck(cacheFlag[cbk[r]]) THEN "permit" ELSE "lookup"]
    /\ UNCHANGED <<guarded, cacheFlag, cacheEntries, cpath, cpermit, cbk, cguard,
                   cchecked, coutcome>>
    /\ UNCHANGED nonCacheVars

\* Handler._permit: "False" without a guard, "True" when the guard permits,
\* HTTPForbidden when it raises PermissionError
Permit(r, base) ==
    IF ~guarded[base] THEN "False"
    ELSE IF cpermit[r] THEN "True" ELSE "HTTPForbidden"

\* Handler.auth_cached, lines 261-269: match the distribution, run the guard;
\* on HTTPForbidden guard = True and the exception goes on after the finally
AuthPermit(r) ==
    /\ cpc[r] = "permit"
    /\ LET distro == MatchDistribution(cpath[r], ADD_TRAILING_SLASH) IN
        IF distro.kind # "distro"
        THEN /\ coutcome' = [coutcome EXCEPT ![r] = distro.kind]
             /\ cpc' = [cpc EXCEPT ![r] = "done"]
             /\ UNCHANGED <<cguard, cchecked>>
        ELSE /\ cchecked' = [cchecked EXCEPT ![r] = guarded[distro.base]]
             /\ cguard' = [cguard EXCEPT ![r] =
                             IF Permit(r, distro.base) = "False"
                             THEN "False" ELSE "True"]
             /\ coutcome' = [coutcome EXCEPT ![r] =
                               IF Permit(r, distro.base) = "HTTPForbidden"
                               THEN "HTTPForbidden" ELSE @]
             /\ cpc' = [cpc EXCEPT ![r] = "authset"]
    /\ UNCHANGED <<guarded, cacheFlag, cacheEntries, cpath, cpermit, cbk,
                   cpresent>>
    /\ UNCHANGED nonCacheVars

\* Handler.auth_cached, lines 270-272, the finally: the flag is written when
\* it was read as absent
WritesFlagAlways(present) == TRUE
WritesFlag(present) == present = "None"

AuthSet(r) ==
    /\ cpc[r] = "authset"
    /\ cacheFlag' = IF WritesFlag(cpresent[r])
                    THEN [cacheFlag EXCEPT ![cbk[r]] = cguard[r]]
                    ELSE cacheFlag
    /\ cpc' = [cpc EXCEPT ![r] =
                 IF coutcome[r] = "HTTPForbidden" THEN "done" ELSE "lookup"]
    /\ UNCHANGED <<guarded, cacheEntries, cpath, cpermit, cbk, cpresent, cguard,
                   cchecked, coutcome>>
    /\ UNCHANGED nonCacheVars

\* the cache is asked for the response of (base key, path)
CacheLookup(r) ==
    /\ cpc[r] = "lookup"
    /\ IF <<cbk[r], cpath[r]>> \in cacheEntries
       THEN /\ coutcome' = [coutcome EXCEPT ![r] = "cached"]
            /\ cpc' = [cpc EXCEPT ![r] = "done"]
       ELSE /\ cpc' = [cpc EXCEPT ![r] = "handler"]
            /\ coutcome' = coutcome
    /\ UNCHANGED <<guarded, cacheFlag, cacheEntries, cpath, cpermit, cbk,
                   cpresent, cguard, cchecked>>
    /\ UNCHANGED nonCacheVars

\* a miss: Handler.stream_content runs (lines 289-290, and lines 700-702 of
\* _match_and_stream); its response is one the cache stores or one it does not
StreamContent(r) ==
    /\ cpc[r] = "handler"
    /\ LET distro == MatchDistribution(cpath[r], TRUE) IN
        IF distro.kind # "distro"
        THEN /\ coutcome' = [coutcome EXCEPT ![r] = distro.kind]
             /\ cpc' = [cpc EXCEPT ![r] = "done"]
        ELSE IF Permit(r, distro.base) = "HTTPForbidden"
        THEN /\ coutcome' = [coutcome EXCEPT ![r] = "HTTPForbidden"]
             /\ cpc' = [cpc EXCEPT ![r] = "done"]
        ELSE \E cacheable \in BOOLEAN :
                IF cacheable
                THEN /\ cpc' = [cpc EXCEPT ![r] = "store"]
                     /\ coutcome' = coutcome
                ELSE /\ coutcome' = [coutcome EXCEPT ![r] = "fresh"]
                     /\ cpc' = [cpc EXCEPT ![r] = "done"]
    /\ UNCHANGED <<guarded, cacheFlag, cacheEntries, cpath, cpermit, cbk,
                   cpresent, cguard, cchecked>>
    /\ UNCHANGED nonCacheVars

\* the new entry is stored under the base key
CacheStore(r) ==
    /\ cpc[r] = "store"
    /\ cacheEntries' = cacheEntries \cup {<<cbk[r], cpath[r]>>}
    /\ coutcome' = [coutcome EXCEPT ![r] = "fresh"]
    /\ cpc' = [cpc EXCEPT ![r] = "done"]
    /\ UNCHANGED <<guarded, cacheFlag, cpath, cpermit, cbk, cpresent, cguard,
                   cchecked>>
    /\ UNCHANGED nonCacheVars

\* the fields of a base key expire
Expire(bk) ==
    /\ Exists(bk)
    /\ cacheFlag' = [cacheFlag EXCEPT ![bk] = "None"]
    /\ cacheEntries' = {e \in cacheEntries : e[1] # bk}
    /\ UNCHANGED <<guarded, cpc, cpath, cpermit, cbk, cpresent, cguard, cchecked,
                   coutcome>>
    /\ UNCHANGED nonCacheVars

\* the stream group at rest, for the specifications that do not move it
InitStreamIdle ==
    /\ pc = [p \in Proc |-> "unused"]
    /\ reqs = 0
    /\ failedAt = [m \in Mirrors |-> NoTime]
    /\ now = 0
    /\ rows = {}
    /\ files = {}
    /\ pendingRow = [p \in Proc |-> FALSE]
    /\ caArtifact = NoArtifact
    /\ unlinked = {}
    /\ cacheEnabled = TRUE
    /\ InitTask

(***************************************************************************)
(* SpecCache: NumProc concurrent requests through the cached handler; the  *)
(* distribution at "a" has a content guard, the one at "b/a" has none.     *)
(***************************************************************************)
InitCache ==
    /\ guarded = [d \in Distributions |-> d = <<"a">>]
    /\ cpc = [r \in Proc |-> "idle"]
    /\ InitCacheIdle
    /\ InitStreamIdle
    /\ InitDispatchRest
    /\ InitCheckpointRest
    /\ InitRangeRest
    /\ InitServeRest
    /\ InitPersistRest
    /\ InitMatchRest
    /\ InitBranchRest
    /\ InitSourceRest
    /\ InitRemoteRest
    /\ InitPullRest

NextCache ==
    \/ \E bk \in BaseKeys : Expire(bk)
    \/ \E r \in Proc :
        \/ Arrive(r)
        \/ FindBasePathCached(r)
        \/ AuthGet(r)
        \/ AuthPermit(r)
        \/ AuthSet(r)
        \/ CacheLookup(r)
        \/ StreamContent(r)
        \/ CacheStore(r)

SpecCache == InitCache /\ [][NextCache]_vars

(***************************************************************************)
(* SpecDispatch: requests, one after the other, through                    *)
(* Handler._match_and_stream. The database holds any subset of the         *)
(* candidate Distribution rows; base_path is unique within a domain, and   *)
(* one candidate lies under another one.                                   *)
(***************************************************************************)
\* get_domain()
CurrentDomain == "default"

DistributionCandidates ==
    {[pulp_domain |-> "default", base_path |-> <<"a">>,
      content_guard |-> TRUE, checkpoint |-> FALSE],
     [pulp_domain |-> "default", base_path |-> <<"a", "b">>,
      content_guard |-> FALSE, checkpoint |-> FALSE],
     [pulp_domain |-> "default", base_path |-> <<"c">>,
      content_guard |-> FALSE, checkpoint |-> TRUE],
     [pulp_domain |-> "other", base_path |-> <<"a">>,
      content_guard |-> FALSE, checkpoint |-> FALSE],
     [pulp_domain |-> "other", base_path |-> <<"b">>,
      content_guard |-> FALSE, checkpoint |-> FALSE]}

\* the paths of the requests
DispatchPaths ==
    {[segs |-> <<"a">>, slash |-> FALSE],
     [segs |-> <<"a">>, slash |-> TRUE],
     [segs |-> <<"a", "x">>, slash |-> FALSE],
     [segs |-> <<"a", "b">>, slash |-> FALSE],
     [segs |-> <<"a", "b", "x">>, slash |-> TRUE],
     [segs |-> <<"b">>, slash |-> FALSE],
     [segs |-> <<"b", "x">>, slash |-> FALSE],
     [segs |-> <<"c">>, slash |-> FALSE],
     [segs |-> <<"c", "x">>, slash |-> FALSE],
     [segs |-> <<"x">>, slash |-> TRUE]}

\* the messages of the PermissionError a guard raises
PermissionErrors == {"no certificate", "expired"}

\* .filter(pulp_domain=domain)
AnyDomain(distros, domain) == distros

DomainFilter(distros, domain) == {d \in distros : d.pulp_domain = domain}

\* Handler._match_distribution over Distribution distros: the row, or what is
\* raised
MatchDistributionRow(distros, domain, path, add_trailing_slash) ==
    LET q == IF ~path.slash /\ add_trailing_slash
             THEN [path EXCEPT !.slash = TRUE] ELSE path
        bps == BasePaths(q)
        hits == {d \in DomainFilter(distros, domain) :
                    \E i \in DOMAIN bps : bps[i] = d.base_path}
    IN  IF Cardinality(hits) = 1
        THEN [kind |-> "distro", distro |-> CHOOSE d \in hits : TRUE]
        ELSE IF hits # {}
        THEN [kind |-> "MultipleObjectsReturned", distro |-> NoDistro]
        ELSE IF /\ q.slash
                /\ \E d \in DomainFilter(distros, domain) :
                      IsProperPrefix(q.segs, d.base_path)
        THEN [kind |-> IF path.slash THEN "DistroListings"
                       ELSE "HTTPMovedPermanently",
              distro |-> NoDistro]
        ELSE [kind |-> "PathNotResolved", distro |-> NoDistro]

\* a request arrives at stream_content
DispatchArrive ==
    /\ dpc = "idle"
    /\ \E q \in DispatchPaths, g \in {"permit"} \cup PermissionErrors,
          h \in {"None", "Response", "ContentArtifact", "ContentArtifactOnDemand"} :
          /\ dpath' = q
          /\ dguard' = g
          /\ dhook' = h
    /\ dpc' = "match"
    /\ UNCHANGED <<drows, ddistro, dresp, dinvoked>>
    /\ UNCHANGED nonDispatchVars

\* line 700: distro = _match_distribution(path)
DispatchMatch ==
    /\ dpc = "match"
    /\ LET m == MatchDistributionRow(drows, CurrentDomain, dpath, TRUE) IN
        IF m.kind = "distro"
        THEN /\ ddistro' = m.distro
             /\ dpc' = "permit"
             /\ UNCHANGED dresp
        ELSE /\ dresp' = Response(m.kind, "",
                            IF m.kind = "HTTPMovedPermanently"
                            THEN [dpath EXCEPT !.slash = TRUE] ELSE EmptyPath)
             /\ dpc' = "done"
             /\ UNCHANGED ddistro
    /\ UNCHANGED <<drows, dpath, dguard, dhook, dinvoked>>
    /\ UNCHANGED nonDispatchVars

\* Handler._permit for the request of the dispatcher: "pass", or the reason of
\* the HTTPForbidden
PermitAlways(distribution, outcome) == "pass"

PermitOutcome(distribution, outcome) ==
    IF ~distribution.content_guard THEN "pass"
    ELSE IF outcome = "permit" THEN "pass"
    ELSE outcome

\* line 702: _permit(request, distro)
DispatchPermit ==
    /\ dpc = "permit"
    /\ LET r == PermitOutcome(ddistro, dguard) IN
        IF r = "pass"
        THEN /\ dpc' = "root"
             /\ UNCHANGED dresp
        ELSE /\ dresp' = Response("HTTPForbidden", r, EmptyPath)
             /\ dpc' = "done"
    /\ UNCHANGED <<drows, dpath, ddistro, dguard, dhook, dinvoked>>
    /\ UNCHANGED nonDispatchVars

\* lines 704-706: the path without the base_path and without leading slashes
RelPath(path, base_path) ==
    [segs |-> SubSeq(path.segs, Len(base_path) + 1, Len(path.segs)),
     slash |-> path.slash /\ Len(path.segs) > Len(base_path)]

\* lines 708-710: the root of the distribution without a slash
RootWithoutSlashNever(path, base_path) == FALSE

RootWithoutSlash(path, base_path) ==
    RelPath(path, base_path).segs = << >> /\ ~path.slash

DispatchRoot ==
    /\ dpc = "root"
    /\ IF RootWithoutSlash(dpath, ddistro.base_path)
       THEN /\ dresp' = Response("HTTPMovedPermanently", "",
                                 [dpath EXCEPT !.slash = TRUE])
            /\ dpc' = "done"
       ELSE /\ dpc' = "handler"
            /\ UNCHANGED dresp
    /\ UNCHANGED <<drows, dpath, ddistro, dguard, dhook, dinvoked>>
    /\ UNCHANGED nonDispatchVars

\* lines 720-732: what becomes of the result of the hook: the phase invoked
\* and the response, or "continue"
ContentHandlerServesAll(content_handler_result) ==
    CASE content_handler_result = "None" ->
             [invoked |-> << >>, kind |-> "continue"]
      [] content_handler_result = "Response" ->
             [invoked |-> << >>, kind |-> "content_handler"]
      [] OTHER -> [invoked |-> <<"serve">>, kind |-> "served"]
ContentHandlerResult(content_handler_result) ==
    CASE content_handler_result = "None" ->
             [invoked |-> << >>, kind |-> "continue"]
      [] content_handler_result = "Response" ->
             [invoked |-> << >>, kind |-> "content_handler"]
      [] content_handler_result = "ContentArtifact" ->
             [invoked |-> <<"serve">>, kind |-> "served"]
      [] content_handler_result = "ContentArtifactOnDemand" ->
             [invoked |-> <<"stream">>, kind |-> "streamed"]

\* lines 718-732: distro.content_handler(original_rel_path) and its result
DispatchContentHandler ==
    /\ dpc = "handler"
    /\ LET r == ContentHandlerResult(dhook) IN
         /\ dinvoked' = dinvoked \o <<"content_handler">> \o r.invoked
         /\ IF r.kind = "continue"
            THEN /\ dpc' = "branch"
                 /\ UNCHANGED dresp
            ELSE /\ dresp' = Response(r.kind, "", EmptyPath)
                 /\ dpc' = "done"
    /\ UNCHANGED <<drows, dpath, ddistro, dguard, dhook>>
    /\ UNCHANGED nonDispatchVars

\* lines 734-942: the checkpoint resolution for a checkpoint distribution, then
\* the publication, version or remote branch with its way to answer
DispatchBranch ==
    /\ dpc = "branch"
    /\ \E out \in {"listing", "serve", "stream", "PathNotResolved"} \cup
                  (IF ddistro.checkpoint
                   THEN {"CheckpointListings", "HTTPMovedPermanently"} ELSE {}) :
          /\ dinvoked' = dinvoked
                 \o (IF ddistro.checkpoint THEN <<"checkpoint">> ELSE << >>)
                 \o (IF out \in {"listing", "serve", "stream"}
                     THEN <<out>> ELSE << >>)
          /\ dresp' = Response(out, "", EmptyPath)
    /\ dpc' = "done"
    /\ UNCHANGED <<drows, dpath, ddistro, dguard, dhook>>
    /\ UNCHANGED nonDispatchVars

\* the next request
DispatchNextRequest ==
    /\ dpc = "done"
    /\ dpc' = "idle"
    /\ dpath' = EmptyPath
    /\ ddistro' = NoDistro
    /\ dguard' = "permit"
    /\ dhook' = "None"
    /\ dresp' = NoResponse
    /\ dinvoked' = << >>
    /\ UNCHANGED drows
    /\ UNCHANGED nonDispatchVars

InitDispatch ==
    /\ drows \in SUBSET DistributionCandidates
    /\ dpc = "idle"
    /\ dpath = EmptyPath
    /\ ddistro = NoDistro
    /\ dguard = "permit"
    /\ dhook = "None"
    /\ dresp = NoResponse
    /\ dinvoked = << >>
    /\ InitStreamIdle
    /\ InitCacheRest
    /\ InitCheckpointRest
    /\ InitRangeRest
    /\ InitServeRest
    /\ InitPersistRest
    /\ InitMatchRest
    /\ InitBranchRest
    /\ InitSourceRest
    /\ InitRemoteRest
    /\ InitPullRest

NextDispatch ==
    \/ DispatchArrive
    \/ DispatchMatch
    \/ DispatchPermit
    \/ DispatchRoot
    \/ DispatchContentHandler
    \/ DispatchBranch
    \/ DispatchNextRequest

SpecDispatch == InitDispatch /\ [][NextDispatch]_vars

(***************************************************************************)
(* SpecCheckpoint: requests, one after the other, that reached the         *)
(* checkpoint branch of _match_and_stream (line 734) for the checkpoint    *)
(* distribution at "c". A segment of the path is a record: whether it      *)
(* begins with 8 digits, T, 6 digits, Z (shaped), the second those digits  *)
(* name (stamp), whether strptime accepts them (valid), and the text after *)
(* them (tail; for a segment that is not shaped, the whole text).          *)
(***************************************************************************)
Seconds == 0..MaxSecond
Ticks == 0..((MaxSecond + 1) * TicksPerSecond - 1)

\* distro.base_path and distro.repository of the checkpoint distribution
CheckpointBasePath == <<"c">>
DistroRepository == 1
OtherRepository == 2

\* the segment YYYYMMDDThhmmssZ of second sec, followed by tail
StampSeg(sec, tail) ==
    [shaped |-> TRUE, stamp |-> sec, valid |-> TRUE, tail |-> tail]
\* 8 digits, T, 6 digits, Z that are no date and time
BadDateSeg == [shaped |-> TRUE, stamp |-> 0, valid |-> FALSE, tail |-> ""]
\* any other text
TextSeg == [shaped |-> FALSE, stamp |-> 0, valid |-> FALSE, tail |-> "x"]

\* original_rel_path of the requests
CheckpointPaths ==
    {EmptyPath,
     [segs |-> <<TextSeg>>, slash |-> FALSE],
     [segs |-> <<BadDateSeg, TextSeg>>, slash |-> FALSE]}
    \cup {[segs |-> <<StampSeg(sec, "")>>, slash |-> sl] :
             sec \in Seconds, sl \in BOOLEAN}
    \cup {[segs |-> <<StampSeg(sec, tl), TextSeg>>, slash |-> FALSE] :
             sec \in Seconds, tl \in {"", "x"}}
    \cup {[segs |-> <<StampSeg(sec, "x")>>, slash |-> FALSE] : sec \in Seconds}

\* the Publication rows there can be: checkpoint publications of the
\* repository of the distribution at any time, and from the start of the clock
\* a publication that is no checkpoint and a checkpoint of another repository
PublicationCandidates ==
    {[id |-> t + 3, pulp_created |-> t,
      repository |-> DistroRepository, checkpoint |-> TRUE] : t \in Ticks}
    \cup {[id |-> 1, pulp_created |-> 0,
           repository |-> DistroRepository, checkpoint |-> FALSE],
          [id |-> 2, pulp_created |-> 0,
           repository |-> OtherRepository, checkpoint |-> TRUE]}

\* datetime.strptime(request_timestamp_str, CHECKPOINT_TS_FORMAT), in ticks
Strptime(stamp) == stamp * TicksPerSecond

\* Handler._format_checkpoint_timestamp: the second of a time
FormatCheckpointTimestamp(t) == t \div TicksPerSecond

\* line 444: request_timestamp > datetime.now(tz=timezone.utc)
IsFutureNever(t, current) == FALSE

IsFuture(t, current) == t > current

\* line 447: request_timestamp.replace(microsecond=999999)
StartOfSecond(t) == t

EndOfSecond(t) == t + (TicksPerSecond - 1)

\* match.group(2) of ^(\d{8}T\d{6}Z)/?(.*)?$ : the text after the stamp and
\* after one slash, if there is one
Group2(path) ==
    LET first == path.segs[1] IN
    IF first.tail # ""
    THEN [segs |-> <<[TextSeg EXCEPT !.tail = first.tail]>> \o Tail(path.segs),
          slash |-> path.slash]
    ELSE [segs |-> Tail(path.segs),
          slash |-> path.slash /\ Len(path.segs) > 1]

\* Handler._parse_checkpoint_path
ParseCheckpointPath(path, current) ==
    LET first == path.segs[1] IN
    IF path.segs = << >> \/ ~first.shaped
    THEN [kind |-> "PathNotResolved", timestamp |-> 0, rel_path |-> EmptyPath]
    ELSE IF ~first.valid
    THEN [kind |-> "PathNotResolved", timestamp |-> 0, rel_path |-> EmptyPath]
    ELSE IF IsFuture(Strptime(first.stamp), current)
    THEN [kind |-> "PathNotResolved", timestamp |-> 0, rel_path |-> EmptyPath]
    ELSE [kind |-> "ok", timestamp |-> EndOfSecond(Strptime(first.stamp)),
          rel_path |-> Group2(path)]

\* lines 394-399: Publication.objects.filter(pulp_created__lte=...,
\* repository_version__repository=distro.repository, checkpoint=True)
FilterIgnoringTime(pubs, t) ==
    {q \in pubs : q.repository = DistroRepository /\ q.checkpoint}

FilterPublications(pubs, t) ==
    {q \in pubs : /\ q.pulp_created <= t
                  /\ q.repository = DistroRepository
                  /\ q.checkpoint}

\* lines 400-401: .order_by("-pulp_created").first()
First(pubs) ==
    IF pubs = {} THEN NoPublication
    ELSE CHOOSE q \in pubs : \A o \in pubs : o.pulp_created <= q.pulp_created

\* Handler._redirect_sub_path of base_path/pub_timestamp_str/rel_path
RedirectSubPath(domain_enabled, stamp, rel_path) ==
    [domain |-> IF domain_enabled THEN CurrentDomain ELSE "",
     base_path |-> CheckpointBasePath, stamp |-> stamp, rel_path |-> rel_path]

NoLocation == RedirectSubPath(FALSE, 0, EmptyPath)

\* a request arrives at the checkpoint branch
CheckpointArrive ==
    /\ kpc = "idle"
    /\ kpath' \in CheckpointPaths
    /\ kpc' = "select"
    /\ UNCHANGED <<kpubs, know, kdomain, kpub, krel, kresp>>
    /\ UNCHANGED nonCheckpointVars

\* lines 735-737: Handler._select_checkpoint_publication(distro, path)
SelectCheckpointPublication ==
    /\ kpc = "select"
    /\ IF kpath = EmptyPath
       THEN /\ kresp' = Response("CheckpointListings", "", NoLocation)
            /\ kpc' = "done"
            /\ UNCHANGED kpub
       ELSE LET parsed == ParseCheckpointPath(kpath, know)
                checkpoint_publication ==
                    First(FilterPublications(kpubs, parsed.timestamp))
                pub_timestamp_str ==
                    FormatCheckpointTimestamp(checkpoint_publication.pulp_created)
                request_timestamp_str ==
                    FormatCheckpointTimestamp(parsed.timestamp)
            IN  IF parsed.kind # "ok"
                THEN /\ kresp' = Response("PathNotResolved", "", NoLocation)
                     /\ kpc' = "done"
                     /\ UNCHANGED kpub
                ELSE IF checkpoint_publication = NoPublication
                THEN /\ kresp' = Response("PathNotResolved", "", NoLocation)
                     /\ kpc' = "done"
                     /\ kpub' = checkpoint_publication
                ELSE IF pub_timestamp_str # request_timestamp_str
                THEN /\ kresp' = Response("HTTPMovedPermanently", "",
                                    RedirectSubPath(kdomain, pub_timestamp_str,
                                                    parsed.rel_path))
                     /\ kpc' = "done"
                     /\ kpub' = checkpoint_publication
                ELSE /\ kpub' = checkpoint_publication
                     /\ kpc' = "strip"
                     /\ UNCHANGED kresp
    /\ UNCHANGED <<kpubs, know, kdomain, kpath, krel>>
    /\ UNCHANGED nonCheckpointVars

\* str.split("/", 1) of a path has a second element
HasSlash(path) == Len(path.segs) > 1 \/ path.slash

\* str.split("/", 1)[1]
AfterFirstSlash(path) ==
    [segs |-> Tail(path.segs), slash |-> path.slash /\ Len(path.segs) > 1]

\* lines 739-741: the path without the timestamp, and on to the publication
StripTimestamp ==
    /\ kpc = "strip"
    /\ IF HasSlash(kpath)
       THEN /\ krel' = AfterFirstSlash(kpath)
            /\ kresp' = Response("publication", "", NoLocation)
       ELSE /\ kresp' = Response("IndexError", "", NoLocation)
            /\ UNCHANGED krel
    /\ kpc' = "done"
    /\ UNCHANGED <<kpubs, know, kdomain, kpath, kpub>>
    /\ UNCHANGED nonCheckpointVars

\* the next request
CheckpointNextRequest ==
    /\ kpc = "done"
    /\ kpc' = "idle"
    /\ kpath' = EmptyPath
    /\ kpub' = NoPublication
    /\ krel' = EmptyPath
    /\ kresp' = NoResponse
    /\ UNCHANGED <<kpubs, know, kdomain>>
    /\ UNCHANGED nonCheckpointVars

InitCheckpoint ==
    /\ know \in Ticks
    /\ kpubs \in {S \in SUBSET {q \in PublicationCandidates : q.pulp_created <= know} :
                     Cardinality(S) <= MaxPublications}
    /\ kdomain \in BOOLEAN
    /\ kpc = "idle"
    /\ kpath = EmptyPath
    /\ kpub = NoPublication
    /\ krel = EmptyPath
    /\ kresp = NoResponse
    /\ InitStreamIdle
    /\ InitCacheRest
    /\ InitDispatchRest
    /\ InitRangeRest
    /\ InitServeRest
    /\ InitPersistRest
    /\ InitMatchRest
    /\ InitBranchRest
    /\ InitSourceRest
    /\ InitRemoteRest
    /\ InitPullRest

NextCheckpoint ==
    \/ CheckpointArrive
    \/ SelectCheckpointPublication
    \/ StripTimestamp
    \/ CheckpointNextRequest

SpecCheckpoint == InitCheckpoint /\ [][NextCheckpoint]_vars

(***************************************************************************)
(* SpecServe: one request for a ContentArtifact whose artifact is local,   *)
(* through Handler._serve_content_artifact. The method has no await: the   *)
(* range arithmetic, the counter and the choice of the response are one    *)
(* step. request.http_range is aiohttp's: slice(None, None) without a      *)
(* Range header, slice(a, None) for 'bytes=a-', slice(a, b + 1) for        *)
(* 'bytes=a-b', slice(-n, None) for 'bytes=-n', ValueError otherwise.      *)
(***************************************************************************)
FileSystem == "pulpcore.app.models.storage.FileSystem"
S3Boto3Storage == "storages.backends.s3boto3.S3Boto3Storage"
AzureStorage == "storages.backends.azure_storage.AzureStorage"
GoogleCloudStorage == "storages.backends.gcloud.GoogleCloudStorage"
\* a storage class the handler does not know
OtherStorage == "storages.backends.sftpstorage.SFTPStorage"

StorageClasses ==
    {FileSystem, S3Boto3Storage, AzureStorage, GoogleCloudStorage, OtherStorage}

\* the values request.http_range can take for an artifact of up to
\* MaxLength bytes
HttpRanges ==
    {NoRange, [kind |-> "error", start |-> 0, stop |-> 0]}
    \cup {[kind |-> "from", start |-> a, stop |-> 0] : a \in 0..(MaxLength + 1)}
    \cup {[kind |-> "suffix", start |-> 0 - n, stop |-> 0] :
             n \in 1..(MaxLength + 1)}
    \cup {r \in [kind : {"slice"}, start : 0..MaxLength,
                  stop : 1..(MaxLength + 1)] : r.start < r.stop}

\* range_start is None, range_stop is None
StartIsNone(r) == r.kind = "none"
StopIsNone(r) == r.kind # "slice"

\* Python's truth value of range_start and of range_stop
TruthyStart(r) == ~StartIsNone(r) /\ r.start # 0
TruthyStop(r) == ~StopIsNone(r) /\ r.stop # 0

\* lines 1163-1172: content_length, the amount added to the counter
ContentLength(size, r) ==
    IF TruthyStart(r) \/ TruthyStop(r)
    THEN IF TruthyStop(r) /\ size # 0 /\ r.stop > size
         THEN size - (IF StartIsNone(r) THEN 0 ELSE r.start)
         ELSE IF TruthyStop(r) THEN r.stop - r.start
         ELSE size
    ELSE size

\* pulpcore.constants.STORAGE_RESPONSE_MAP: the headers a storage class
\* takes as response overrides of a pre-signed URL
StorageResponseMap(storage_class) ==
    IF storage_class = S3Boto3Storage
    THEN {"Content-Type", "Content-Disposition"}
    ELSE {}

\* lines 1099-1106: _set_params_from_headers
SetParamsFromHeaders(hdrs, storage_domain) ==
    {a_key \in StorageResponseMap(storage_domain) :
        \/ a_key = "Content-Type" /\ hdrs.ContentType # ""
        \/ a_key = "Content-Disposition" /\ hdrs.ContentDisposition # ""}

\* line 1109: os.path.basename(content_artifact.relative_path)
Basename(relative_path) == relative_path[Len(relative_path)]

\* lines 1109-1112: the headers after _build_url has run
WithContentDisposition(headers, relative_path) ==
    [headers EXCEPT
       !.ContentDisposition = "attachment;filename=" \o Basename(relative_path)]

\* lines 1108-1116: _build_url, as the headers it leaves and the parameters
\* of the pre-signed URL
BuildUrl(headers, relative_path, storage_class) ==
    LET hdrs == WithContentDisposition(headers, relative_path)
    IN  [headers |-> hdrs,
         parameters |-> SetParamsFromHeaders(hdrs, storage_class)]

\* the S3 branch tested before domain.redirect_to_object_storage
BuildResponseS3First(size, relative_path, headers, storage_class, redirect_to_object_storage, exists) ==
    LET hdrs == [headers EXCEPT !.XPulpArtifactSize = size]
        url == BuildUrl(hdrs, relative_path, storage_class)
    IN  IF storage_class = FileSystem
        THEN IF ~exists
             THEN ArtifactResult("Exception", hdrs, {}, NoContentRange)
             ELSE ArtifactResult("FileResponse", hdrs, {}, NoContentRange)
        ELSE IF storage_class = S3Boto3Storage
        THEN ArtifactResult("HTTPFound", url.headers, url.parameters,
                            NoContentRange)
        ELSE IF ~redirect_to_object_storage
        THEN ArtifactResult("ArtifactResponse", hdrs, {}, NoContentRange)
        ELSE IF storage_class \in {AzureStorage, GoogleCloudStorage}
        THEN ArtifactResult("HTTPFound", url.headers, url.parameters,
                            NoContentRange)
        ELSE ArtifactResult("NotImplementedError", hdrs, {}, NoContentRange)

\* lines 1096-1139: _build_response_from_content_artifact
BuildResponseFromContentArtifact(size, relative_path, headers, storage_class, redirect_to_object_storage, exists) ==
    LET hdrs == [headers EXCEPT !.XPulpArtifactSize = size]
        url == BuildUrl(hdrs, relative_path, storage_class)
    IN  IF storage_class = FileSystem
        THEN IF ~exists
             THEN ArtifactResult("Exception", hdrs, {}, NoContentRange)
             ELSE ArtifactResult("FileResponse", hdrs, {}, NoContentRange)
        ELSE IF ~redirect_to_object_storage
        THEN ArtifactResult("ArtifactResponse", hdrs, {}, NoContentRange)
        ELSE IF storage_class = S3Boto3Storage
        THEN ArtifactResult("HTTPFound", url.headers, url.parameters,
                            NoContentRange)
        ELSE IF storage_class \in {AzureStorage, GoogleCloudStorage}
        THEN ArtifactResult("HTTPFound", url.headers, url.parameters,
                            NoContentRange)
        ELSE ArtifactResult("NotImplementedError", hdrs, {}, NoContentRange)

\* lines 1162-1183: _serve_content_artifact
ServeContentArtifactRequest ==
    /\ apc = "serve"
    /\ IF arange.kind = "error"
       THEN /\ aresp' = ArtifactResult("HTTPRequestRangeNotSatisfiable",
                                       Headers("", "", None), {},
                                       <<Star, IF asize # 0 THEN asize ELSE Star>>)
            /\ UNCHANGED <<acounter, aadds, aheaders>>
       ELSE LET response == BuildResponseFromContentArtifact(
                                asize, arelpath, aheaders, astorage, aredirect,
                                aexists)
            IN  /\ acounter' = acounter + ContentLength(asize, arange)
                /\ aadds' = aadds + 1
                /\ aresp' = response
                /\ aheaders' = response.headers
    /\ apc' = "done"
    /\ UNCHANGED <<asize, arange, amethod, arelpath, astorage, aredirect,
                   aexists>>
    /\ UNCHANGED nonServeVars

\* the headers Handler.response_headers gives for a path: a Content-Type
\* when the MIME map knows one, and what content_headers_for() adds
RequestHeaders ==
    {Headers("", "", None), Headers("text/plain", "", None),
     Headers("text/plain", "inline", None)}

InitServe ==
    /\ asize \in 0..MaxLength
    /\ arange \in HttpRanges
    /\ amethod \in {"GET", "HEAD"}
    /\ arelpath \in {<<"f">>, <<"d", "g">>}
    /\ astorage \in StorageClasses
    /\ aredirect \in BOOLEAN
    /\ aexists \in BOOLEAN
    /\ aheaders \in RequestHeaders
    /\ apc = "serve"
    /\ acounter = 0
    /\ aadds = 0
    /\ aresp = ArtifactResult("none", Headers("", "", None), {}, NoContentRange)
    /\ InitStreamIdle
    /\ InitCacheRest
    /\ InitDispatchRest
    /\ InitCheckpointRest
    /\ InitRangeRest
    /\ InitPersistRest
    /\ InitMatchRest
    /\ InitBranchRest
    /\ InitSourceRest
    /\ InitRemoteRest
    /\ InitPullRest

NextServe == ServeContentArtifactRequest

SpecServe == InitServe /\ [][NextServe]_vars

(***************************************************************************)
(* SpecRange: one GET remote try of Handler._stream_remote_artifact with   *)
(* request.http_range = slice(gstart, gstop): the range check, the headers *)
(* callback and the data callback once per chunk. The upstream body has    *)
(* glen bytes, numbered from 0 as Python does; the downloader hands them   *)
(* over in chunks of the lengths gsplit; upstream sends Content-Length.    *)
(***************************************************************************)
\* Python's truth value of a number or None
Truthy(x) == x # None /\ x # 0

Min(x, y) == IF x <= y THEN x ELSE y
Max(x, y) == IF x >= y THEN x ELSE y

\* the ways to cut n bytes into chunks
RECURSIVE Splits(_)
Splits(n) ==
    IF n = 0 THEN {<< >>}
    ELSE UNION {{<<k>> \o rest : rest \in Splits(n - k)} : k \in 1..n}

\* an index of data[i:j] as Python reads it for a sequence of length len
SliceIndex(i, len) == IF i < 0 THEN Max(0, len + i) ELSE Min(i, len)

\* the upstream positions of data[i:j], data being the len bytes from offset
PySlice(offset, len, i, j) ==
    LET lo == SliceIndex(i, len)
        hi == SliceIndex(j, len)
    IN  [n \in 1..Max(0, hi - lo) |-> offset + lo + n - 1]

\* line 1224: size or "*"
SizeOrStar(size) == IF Truthy(size) THEN size ELSE Star

\* lines 1220, 1223: the range cannot be satisfied
Unsatisfiable ==
    \/ gmalformed
    \/ Truthy(gsize) /\ Truthy(gstart) /\ gstart >= gsize

\* lines 1215-1234 and 1303-1306: the range check, the status,
\* actual_content_length, and the downloader
RangeCheck ==
    /\ gpc = "check"
    /\ IF Unsatisfiable
       THEN /\ gstatus' = 416
            /\ gcrange' = <<Star, SizeOrStar(gsize)>>
            /\ gpc' = "done"
            /\ UNCHANGED <<gactual, gdownloader>>
       ELSE /\ gstatus' = IF Truthy(gstart) \/ Truthy(gstop) THEN 206 ELSE 200
            /\ gactual' =
                 IF /\ Truthy(gstart) \/ Truthy(gstop)
                    /\ Truthy(gstop) /\ Truthy(gsize) /\ gstop > gsize
                 THEN gsize - (IF gstart = None THEN 0 ELSE gstart)
                 ELSE None
            /\ gdownloader' = TRUE
            /\ gpc' = "headers"
            /\ UNCHANGED gcrange
    /\ UNCHANGED <<rangeInputs, gclen, gnext, ghandled, gsent, gsaved, gxsize,
                   gfile, glater>>
    /\ UNCHANGED nonRangeVars

\* lines 1243-1249: the exclusive end of the slice the headers announce
AnnouncedStop(start, content_length) ==
    IF gstop = None THEN content_length
    ELSE IF Truthy(gactual) THEN start + gactual
    ELSE gstop

\* lines 1263-1266: X-PULP-ARTIFACT-SIZE is the upstream Content-Length (a
\* string, "0" included) unless upstream sent a Content-Encoding
XPulpArtifactSize(has_content_length, content_length, content_encoding) ==
    IF has_content_length /\ ~content_encoding THEN content_length ELSE None

\* lines 1236-1269: handle_response_headers
RangedHandleResponseHeaders ==
    /\ gpc = "headers"
    /\ gxsize' = XPulpArtifactSize(gclheader, glen, gencoding)
    /\ IF gstatus = 206 /\ gclheader
       THEN LET content_length == glen
                start == IF gstart = None THEN 0 ELSE gstart
                stop == AnnouncedStop(start, content_length)
                range_bytes == stop - start
            IN  /\ gclen' = IF Truthy(gactual) THEN gactual ELSE range_bytes
                /\ gcrange' = <<start, stop - 1, content_length>>
       ELSE UNCHANGED <<gclen, gcrange>>
    /\ gpc' = "data"
    /\ UNCHANGED <<rangeInputs, gstatus, gactual, gnext, ghandled, gsent,
                   gdownloader, gsaved, gfile, glater>>
    /\ UNCHANGED nonRangeVars

\* the upstream position of the first byte of chunk k
RECURSIVE ChunkOffset(_)
ChunkOffset(k) == IF k <= 1 THEN 0 ELSE ChunkOffset(k - 1) + gsplit[k - 1]

\* lines 1282-1291: data_for_client of one chunk of len bytes
DataForClient(len) ==
    LET start_byte_pos ==
            IF Truthy(gstart) THEN Max(0, gstart - ghandled) ELSE 0
        end_byte_pos ==
            IF Truthy(gstop) THEN Min(len, gstop - ghandled) ELSE len
    IN  PySlice(ghandled, len, start_byte_pos, end_byte_pos)

\* lines 1271-1297: handle_data for the next chunk
RangedHandleData ==
    /\ gpc = "data"
    /\ gnext <= Len(gsplit)
    /\ LET len == gsplit[gnext]
           data == PySlice(ChunkOffset(gnext), len, 0, len)
       IN  /\ IF gmethod = "GET"
              THEN IF Truthy(gstart) \/ Truthy(gstop)
                   THEN /\ gsent' = gsent \o DataForClient(len)
                        /\ ghandled' = ghandled + len
                   ELSE /\ gsent' = gsent \o data
                        /\ UNCHANGED ghandled
              ELSE UNCHANGED <<gsent, ghandled>>
           /\ gfile' = IF gpolicy # "streamed" THEN gfile \o data ELSE gfile
    /\ gnext' = gnext + 1
    /\ UNCHANGED <<rangeInputs, gpc, gstatus, gactual, gclen, gcrange,
                   gdownloader, gsaved, gxsize, glater>>
    /\ UNCHANGED nonRangeVars

\* lines 1311-1347: downloader.run() returns after the last chunk; the
\* persistence phase follows when the artifact is to be saved
RangedRunReturns ==
    /\ gpc = "data"
    /\ gnext > Len(gsplit)
    /\ gsaved' = (gsave /\ gpolicy # "streamed")
    /\ gpc' = "done"
    /\ UNCHANGED <<rangeInputs, gstatus, gactual, gclen, gcrange, gnext,
                   ghandled, gsent, gdownloader, gxsize, gfile, glater>>
    /\ UNCHANGED nonRangeVars

\* line 805: ca.artifact, for the ContentArtifact of the path after the
\* remote try
HasNoArtifact == FALSE

HasArtifact == gsaved

\* lines 792-810 for a later request for the same path, without Range: the
\* ContentArtifact that has its artifact is served from storage
\* (_serve_content_artifact, filesystem storage: the file and its size), the
\* one without goes to the mirrors again
LaterRequest ==
    /\ gpc = "done"
    /\ glater' =
         IF HasArtifact
         THEN LET response == BuildResponseFromContentArtifact(
                                  Len(gfile), <<"f">>, Headers("", "", None),
                                  FileSystem, FALSE, TRUE)
              IN  Later(response.kind,
                        IF gmethod = "GET" THEN gfile ELSE << >>,
                        response.headers.XPulpArtifactSize)
         ELSE Later("StreamResponse", << >>, None)
    /\ gpc' = "later"
    /\ UNCHANGED <<rangeInputs, gstatus, gactual, gclen, gcrange, gnext,
                   ghandled, gsent, gdownloader, gsaved, gxsize, gfile>>
    /\ UNCHANGED nonRangeVars

InitRange ==
    /\ glen \in 0..MaxLength
    /\ gsplit \in Splits(glen)
    /\ gsize \in {None, glen}
    /\ gmalformed \in BOOLEAN
    /\ gpolicy \in {"on_demand", "streamed"}
    /\ gsave \in BOOLEAN
    /\ gstart \in {None} \cup 0..MaxLength
    /\ gstop \in {None} \cup 1..(MaxLength + 1)
    /\ gstart = None => gstop = None
    /\ gstop # None => gstart < gstop
    /\ gmalformed => gstart = None
    /\ gmethod \in {"GET", "HEAD"}
    /\ gclheader \in BOOLEAN
    /\ gencoding \in BOOLEAN
    /\ gdownloader = FALSE
    /\ gsaved = FALSE
    /\ gxsize = None
    /\ gfile = << >>
    /\ glater = NoLater
    /\ gpc = "check"
    /\ gstatus = 200
    /\ gactual = None
    /\ gclen = None
    /\ gcrange = << >>
    /\ gnext = 1
    /\ ghandled = 0
    /\ gsent = << >>
    /\ InitStreamIdle
    /\ InitCacheRest
    /\ InitDispatchRest
    /\ InitCheckpointRest
    /\ InitServeRest
    /\ InitPersistRest
    /\ InitMatchRest
    /\ InitBranchRest
    /\ InitSourceRest
    /\ InitRemoteRest
    /\ InitPullRest

NextRange ==
    \/ RangeCheck
    \/ RangedHandleResponseHeaders
    \/ RangedHandleData
    \/ RangedRunReturns
    \/ LaterRequest

SpecRange == InitRange /\ [][NextRange]_vars

(***************************************************************************)
(* SpecPersist: one fetch of Handler._stream_remote_artifact from the     *)
(* return of downloader.run() to the end of Handler._save_artifact, over  *)
(* a database that may already hold the Artifact, the Content and some of *)
(* its ContentArtifact rows (saved by a sync or by a parallel request).   *)
(* tnew counts the rows the fetch inserted.                               *)
(***************************************************************************)
\* how downloader.run() can end
FetchOutcomes ==
    {"ok", "ClientResponseError", "DigestValidationError", "CancelledError"}

\* a ContentArtifact row of the content unit
ContentArtifactRow(relative_path, artifact) ==
    [relative_path |-> relative_path, artifact |-> artifact]

\* the relative paths of a set of ContentArtifact rows
RelativePaths(cas) == {ca.relative_path : ca \in cas}

\* the statement after downloader.run() is reached only when it returned
PersistsAnyOutcome(outcome) == TRUE
Persists(outcome) == outcome = "ok"

\* line 1334: the artifact is kept unless the caller or the policy says no
ShouldSaveIgnoringPolicy(save_artifact, policy) == save_artifact
ShouldSave(save_artifact, policy) == save_artifact /\ policy # "streamed"

\* artifact.save() inserts a row unless an equal one is committed and still
\* there at the get()
ArtifactInserted(committed, orphan) == IF committed THEN orphan ELSE TRUE

\* the dictionary the content type returns: one artifact per relative path
ArtifactsOf(paths) == paths

\* content.save() and one new_ca.save() per entry of artifacts
SaveContent(artifacts) ==
    [content |-> TRUE,
     cas |-> {ContentArtifactRow(rp, TRUE) : rp \in artifacts},
     new |-> NewRows(0, 1, Cardinality(artifacts))]

\* the content is there already: bulk_create with update_conflicts when it
\* has no ContentArtifact or one without an artifact
ExistingContentKept(cas, artifacts) ==
    [content |-> TRUE, cas |-> cas, new |-> NewRows(0, 0, 0)]
ExistingContent(cas, artifacts) ==
    IF cas = {} \/ (\E ca \in cas : ~ca.artifact)
    THEN [content |-> TRUE,
          cas |-> {ContentArtifactRow(rp, TRUE) : rp \in artifacts} \cup
                  {ca \in cas : ca.relative_path \notin artifacts},
          new |-> NewRows(0, 0,
                     Cardinality(artifacts \ RelativePaths(cas)))]
    ELSE [content |-> TRUE, cas |-> cas, new |-> NewRows(0, 0, 0)]

\* normal on-demand downloading: the saved row gets the artifact
UpdateContentArtifact(cas, rel_path) ==
    [content |-> TRUE,
     cas |-> {IF ca.relative_path = rel_path
              THEN ContentArtifactRow(rel_path, TRUE) ELSE ca : ca \in cas},
     new |-> NewRows(0, 0, 0)]

\* content_artifact.relative_path of the request
RequestedPath == 1

\* lines 1299-1301, the finalize callback: the downloader's own finalize
\* runs for an artifact that is kept
FinalizeRuns(save_artifact, policy) == save_artifact /\ policy # "streamed"

\* the downloads that got to the end of the body: every chunk went through
\* handle_data, which writes it to the client (lines 1276-1295), and
\* finalize was called; the digests are validated there
BodyRead(outcome) == outcome \in {"ok", "DigestValidationError"}

\* lines 1076-1083: a RemoteArtifact for each ContentArtifact the remote
\* has a url for; the IntegrityError of a row that is there is ignored
SaveRemoteArtifacts(ras, cas, urls) == ras \cup (RelativePaths(cas) \cap urls)

\* downloader.run() ends; an exception leaves the handler
DownloaderRun ==
    /\ tpc = "run"
    /\ tsent' = BodyRead(toutcome)
    /\ tfinalized' = (BodyRead(toutcome) /\ FinalizeRuns(tsave, tpolicy))
    /\ tpc' = IF Persists(toutcome) /\ ShouldSave(tsave, tpolicy)
              THEN "save" ELSE "done"
    /\ UNCHANGED <<trows, tcontent, tcas, tadding, tpaths, toutcome, tsave,
                   tpolicy, torphan, tnew, tras, turls>>
    /\ UNCHANGED nonPersistVars

\* Handler._save_artifact, one transaction
SaveArtifact ==
    /\ tpc = "save"
    /\ LET inserted == ArtifactInserted(trows, torphan)
           rest == IF tadding
                   THEN IF ~tcontent
                        THEN SaveContent(ArtifactsOf(tpaths))
                        ELSE ExistingContent(tcas, ArtifactsOf(tpaths))
                   ELSE UpdateContentArtifact(tcas, RequestedPath)
       IN /\ trows' = TRUE
          /\ tcontent' = rest.content
          /\ tcas' = rest.cas
          /\ tnew' = NewRows(IF inserted THEN 1 ELSE 0, rest.new.Content,
                             rest.new.ContentArtifact)
          /\ tras' = IF tadding THEN SaveRemoteArtifacts(tras, rest.cas, turls)
                     ELSE tras
    /\ tpc' = "done"
    /\ UNCHANGED <<tadding, tpaths, toutcome, tsave, tpolicy, torphan, turls,
                   tfinalized, tsent>>
    /\ UNCHANGED nonPersistVars

\* the rows the content unit can have
AllContentArtifactRows ==
    {ContentArtifactRow(rp, a) : rp \in 1..MaxPaths, a \in BOOLEAN}

\* no two rows of one content share a relative path
UniqueRelativePaths(cas) ==
    \A c1 \in cas, c2 \in cas : c1.relative_path = c2.relative_path => c1 = c2

InitPersist ==
    /\ trows \in BOOLEAN
    /\ torphan \in BOOLEAN
    /\ torphan => trows
    /\ tcontent \in BOOLEAN
    /\ tcas \in SUBSET AllContentArtifactRows
    /\ UniqueRelativePaths(tcas)
    /\ ~tcontent => tcas = {}
    /\ tadding \in BOOLEAN
    /\ tpaths \in {1..k : k \in 1..MaxPaths}
    /\ ~tadding =>
         /\ tcontent
         /\ ContentArtifactRow(RequestedPath, FALSE) \in tcas
         /\ tpaths = {RequestedPath}
    /\ toutcome \in FetchOutcomes
    /\ tsave \in BOOLEAN
    /\ tpolicy \in {"on_demand", "streamed"}
    /\ tpc = "run"
    /\ tnew = NewRows(0, 0, 0)
    /\ turls \in SUBSET (1..MaxPaths)
    /\ tras \in SUBSET (RelativePaths(tcas) \cap turls)
    /\ tfinalized = FALSE
    /\ tsent = FALSE
    /\ InitStreamIdle
    /\ InitCacheRest
    /\ InitDispatchRest
    /\ InitCheckpointRest
    /\ InitRangeRest
    /\ InitServeRest
    /\ InitMatchRest
    /\ InitBranchRest
    /\ InitSourceRest
    /\ InitRemoteRest
    /\ InitPullRest

NextPersist ==
    \/ DownloaderRun
    \/ SaveArtifact

SpecPersist == InitPersist /\ [][NextPersist]_vars

(***************************************************************************)
(* SpecMatch: Handler._match_distribution on one path, with paths and      *)
(* base paths as strings of characters, so that a prefix can end in the    *)
(* middle of a segment.                                                    *)
(***************************************************************************)
Chars == {"a", "b", "/"}

\* the strings of at most n characters
Strings(n) == UNION {[1..k -> Chars] : k \in 0..n}

\* str.endswith("/")
EndsInSlash(s) == s # << >> /\ s[Len(s)] = "/"

\* str.rstrip("/")
RECURSIVE RStripSlash(_)
RStripSlash(s) ==
    IF EndsInSlash(s) THEN RStripSlash(SubSeq(s, 1, Len(s) - 1)) ELSE s

\* str.lstrip("/")
RECURSIVE LStripSlash(_)
LStripSlash(s) ==
    IF s # << >> /\ s[1] = "/" THEN LStripSlash(SubSeq(s, 2, Len(s))) ELSE s

\* os.path.split(path)[0]: up to the last slash, without trailing slashes
\* unless it is slashes only
OsPathSplitHead(s) ==
    LET slashes == {i \in DOMAIN s : s[i] = "/"}
        i == IF slashes = {} THEN 0
             ELSE CHOOSE k \in slashes : \A j \in slashes : j <= k
        head == SubSeq(s, 1, i)
    IN  IF head # << >> /\ (\E k \in DOMAIN head : head[k] # "/")
        THEN RStripSlash(head) ELSE head

\* Handler._base_paths
RECURSIVE BasePathsOfString(_)
BasePathsOfString(path) ==
    LET base == OsPathSplitHead(path) IN
    IF LStripSlash(base) = << >> THEN << >>
    ELSE <<base>> \o BasePathsOfString(base)

\* base_path__startswith=path
StartsWithStripped(s, prefix) ==
    LET q == RStripSlash(prefix) IN
    Len(q) <= Len(s) /\ SubSeq(s, 1, Len(q)) = q
StartsWith(s, prefix) ==
    Len(prefix) <= Len(s) /\ SubSeq(s, 1, Len(prefix)) = prefix

\* Substr("base_path", from)
Substr(s, from) == SubSeq(s, from, Len(s))

\* SUBSTRING(s, '([^/]*)')
RECURSIVE UpToSlash(_)
UpToSlash(s) ==
    IF s = << >> \/ s[1] = "/" THEN << >>
    ELSE <<s[1]>> \o UpToSlash(SubSeq(s, 2, Len(s)))

\* DistroListings.__init__: the entries of the listing
DistroListingsEntries(path, distros, hide_guarded) ==
    LET shown == {d \in distros :
                     /\ ~d.artifact_distribution
                     /\ ~d.hidden
                     /\ hide_guarded => ~d.content_guard}
    IN  {UpToSlash(Substr(d.base_path, 1 + Len(path))) \o <<"/">> :
            d \in shown}

\* Handler._match_distribution on strings
MatchDistributionPath(distributions, domain, original_path, add_trailing_slash, hide_guarded) ==
    LET path_ends_in_slash == EndsInSlash(original_path)
        path == IF ~path_ends_in_slash /\ add_trailing_slash
                THEN original_path \o <<"/">> ELSE original_path
        base_paths == BasePathsOfString(path)
        in_domain == {d \in distributions : d.pulp_domain = domain}
        hits == {d \in in_domain :
                    \E i \in DOMAIN base_paths : base_paths[i] = d.base_path}
        distros == {d \in in_domain : StartsWith(d.base_path, path)}
    IN  IF Cardinality(hits) = 1
        THEN MatchResult("distro", (CHOOSE d \in hits : TRUE).base_path,
                         {}, << >>)
        ELSE IF hits # {}
        THEN MatchResult("MultipleObjectsReturned", << >>, {}, << >>)
        ELSE IF /\ \E i \in DOMAIN base_paths :
                      base_paths[i] = RStripSlash(path)
                /\ distros # {}
        THEN IF path_ends_in_slash
             THEN MatchResult("DistroListings", << >>,
                     DistroListingsEntries(path, distros, hide_guarded),
                     << >>)
             ELSE MatchResult("HTTPMovedPermanently", << >>, {}, path)
        ELSE MatchResult("PathNotResolved", << >>, {}, << >>)

\* a Distribution row
StringDistribution(domain, base_path, hidden, content_guard, artifact) ==
    [pulp_domain |-> domain, base_path |-> base_path, hidden |-> hidden,
     content_guard |-> content_guard, artifact_distribution |-> artifact]

StringDistributionCandidates ==
    {StringDistribution("default", <<"a", "b", "/", "a">>, FALSE, FALSE, FALSE),
     StringDistribution("default", <<"a", "/", "b">>, FALSE, TRUE, FALSE),
     StringDistribution("default", <<"a", "/", "a">>, TRUE, FALSE, FALSE),
     StringDistribution("default", <<"b", "/", "a", "/", "b">>,
                        FALSE, FALSE, FALSE),
     StringDistribution("default", <<"b", "/", "b">>, FALSE, FALSE, TRUE),
     StringDistribution("other", <<"b", "b", "/", "a">>, FALSE, FALSE, FALSE)}

\* one request through the resolver
MatchPath ==
    /\ bpc = "idle"
    /\ bres' = MatchDistributionPath(brows, CurrentDomain, bpath, TRUE, bhide)
    /\ bpc' = "done"
    /\ UNCHANGED <<bpath, brows, bhide>>
    /\ UNCHANGED nonMatchVars

InitMatch ==
    /\ bpath \in Strings(MaxPathLen) \ {<< >>}
    /\ brows \in SUBSET StringDistributionCandidates
    /\ bhide \in BOOLEAN
    /\ bres = MatchResult("none", << >>, {}, << >>)
    /\ bpc = "idle"
    /\ InitStreamIdle
    /\ InitCacheRest
    /\ InitDispatchRest
    /\ InitCheckpointRest
    /\ InitRangeRest
    /\ InitServeRest
    /\ InitPersistRest
    /\ InitBranchRest
    /\ InitSourceRest
    /\ InitRemoteRest
    /\ InitPullRest

NextMatch == MatchPath

SpecMatch == InitMatch /\ [][NextMatch]_vars

(***************************************************************************)
(* SpecBranch: one request in Handler._match_and_stream from the point     *)
(* where publication and repo_version are settled: the publication branch, *)
(* the repository version branch, and what follows them.  Relative paths   *)
(* are lists of segments; rel_path always ends in a slash there.           *)
(***************************************************************************)
\* the files a publication or a version can hold
BranchFiles == {<<"f">>, <<"d", "index.html">>, <<"d", "f">>}

\* original_rel_path of the requests
BranchPaths ==
    {[segs |-> << >>, slash |-> TRUE],
     [segs |-> <<"d">>, slash |-> FALSE],
     [segs |-> <<"d">>, slash |-> TRUE],
     [segs |-> <<"f">>, slash |-> FALSE],
     [segs |-> <<"f">>, slash |-> TRUE],
     [segs |-> <<"d", "f">>, slash |-> FALSE],
     [segs |-> <<"d", "index.html">>, slash |-> FALSE],
     [segs |-> <<"x">>, slash |-> FALSE]}

\* "{}index.html".format(rel_path)
IndexPath(rel_path) == [segs |-> rel_path \o <<"index.html">>, slash |-> FALSE]

\* relative_path__startswith=path, for a path that ends in a slash
IsUnder(relative_path, path) ==
    Len(path) < Len(relative_path) /\
    SubSeq(relative_path, 1, Len(path)) = path

\* file_or_directory_name: the next segment, and whether a slash follows it
FileOrDirectoryName(directory_path, relative_path) ==
    [name |-> relative_path[Len(directory_path) + 1],
     dir |-> Len(relative_path) > Len(directory_path) + 1]

\* Handler.list_directory: the names only
ListDirectory(repo_version, publication, pass_through, published, content, path) ==
    (IF publication
     THEN {FileOrDirectoryName(path, pa) :
              pa \in {f \in published : IsUnder(f, path)}}
     ELSE {}) \cup
    (IF repo_version \/ (publication /\ pass_through)
     THEN {FileOrDirectoryName(path, ca) :
              ca \in {f \in content : IsUnder(f, path)}}
     ELSE {})

\* .get(relative_path=original_rel_path): the rows with exactly that path
AtPath(relative_paths, original_rel_path) ==
    {f \in relative_paths :
        ~original_rel_path.slash /\ f = original_rel_path.segs}

\* ca.artifact is set
HasLocalArtifact(relative_path) == relative_path # <<"d", "f">>

\* _serve_content_artifact when ca.artifact, else _stream_content_artifact
ContentResult(stage, relative_path) ==
    BranchResult(IF HasLocalArtifact(relative_path)
                 THEN "serve_content_artifact" ELSE "stream_content_artifact",
                 stage, relative_path, {})

\* raise HTTPMovedPermanently(f"{request.path}/")
AddSlash(stage, original_rel_path) ==
    BranchResult("HTTPMovedPermanently", stage, original_rel_path.segs, {})

\* control leaves a branch without a response
FallThrough(original_rel_path) ==
    BranchResult("none", "none", original_rel_path.segs, {})

\* ContentArtifact...aget(content__in=..., relative_path=original_rel_path)
ContentArtifactAt(stage, content, double, original_rel_path) ==
    IF AtPath(content, original_rel_path) = {}
    THEN FallThrough(original_rel_path)
    ELSE IF double /\ original_rel_path.segs = <<"f">>
    THEN BranchResult("MultipleObjectsReturned", stage,
                      original_rel_path.segs, {})
    ELSE ContentResult(stage, original_rel_path.segs)

\* line 819
PassThroughAlways(pass_through) == TRUE
PassThrough(pass_through) == pass_through

\* lines 789-839: the published artifact, then the pass-through lookup
PublishedThenPassThrough(published, content, double, pass_through, original_rel_path) ==
    IF AtPath(published, original_rel_path) # {}
    THEN ContentResult("published", original_rel_path.segs)
    ELSE IF PassThrough(pass_through)
    THEN ContentArtifactAt("pass_through", content, double, original_rel_path)
    ELSE FallThrough(original_rel_path)

\* lines 766-839
PublicationBranchResult(published, content, double, pass_through, hook, path) ==
    LET rel_path == path.segs
        ends_in_slash == path.slash
        index_path == IndexPath(rel_path)
    IN  IF index_path.segs \in published
        THEN IF ~ends_in_slash
             THEN AddSlash("index", path)
             ELSE PublishedThenPassThrough(published, content, double,
                                           pass_through, index_path)
        ELSE LET dir_list == ListDirectory(FALSE, TRUE, pass_through,
                                           published, content, rel_path)
                             \cup hook
             IN  IF dir_list # {} /\ ~ends_in_slash
                 THEN AddSlash("listing", path)
                 ELSE IF dir_list # {}
                 THEN BranchResult("HTTPOk", "listing", rel_path, dir_list)
                 ELSE PublishedThenPassThrough(published, content, double,
                                               pass_through, path)

\* lines 841-886
VersionBranchResult(content, double, hook, path) ==
    LET rel_path == path.segs
        ends_in_slash == path.slash
        index_path == IndexPath(rel_path)
    IN  IF index_path.segs \in content
        THEN ContentArtifactAt("version", content, double, index_path)
        ELSE LET dir_list == ListDirectory(TRUE, FALSE, FALSE, {}, content,
                                           rel_path)
                             \cup hook
             IN  IF dir_list # {} /\ ~ends_in_slash
                 THEN AddSlash("listing", path)
                 ELSE IF dir_list # {}
                 THEN BranchResult("HTTPOk", "listing", rel_path, dir_list)
                 ELSE ContentArtifactAt("version", content, double, path)

\* a branch ends the request or leaves it to the statements after it
AfterBranch(branch_result) ==
    /\ vresp' = branch_result
    /\ vpc' = IF branch_result.kind = "none" THEN "tail" ELSE "done"
    /\ UNCHANGED <<vpublished, vcontent, vdouble, vpublication, vversion,
                   vsfp, vpass, vremote, vhook, vpath>>
    /\ UNCHANGED nonBranchVars

\* publication and repo_version of the request, as far as the branches look
BranchSource ==
    Source(IF vpublication THEN 1 ELSE None, IF vversion THEN 1 ELSE None)

\* line 766: if publication
PublicationBranch ==
    /\ vpc = "branch"
    /\ BranchOf(BranchSource, vsfp) = "publication"
    /\ AfterBranch(PublicationBranchResult(vpublished, vcontent, vdouble,
                                           vpass, vhook, vpath))

\* line 841: if repo_version and not publication and not
\* distro.SERVE_FROM_PUBLICATION
VersionBranch ==
    /\ vpc = "branch"
    /\ BranchOf(BranchSource, vsfp) = "version"
    /\ AfterBranch(VersionBranchResult(vcontent, vdouble, vhook, vpath))

\* neither condition holds
NoBranch ==
    /\ vpc = "branch"
    /\ BranchOf(BranchSource, vsfp) = "none"
    /\ AfterBranch(FallThrough(vpath))

\* lines 888-942: pull-through with the remote, else PathNotResolved
BranchTail ==
    /\ vpc = "tail"
    /\ vresp' = IF vremote
                THEN BranchResult("pull_through", "remote",
                                  vresp.relative_path, {})
                ELSE BranchResult("PathNotResolved", "none",
                                  vresp.relative_path, {})
    /\ vpc' = "done"
    /\ UNCHANGED <<vpublished, vcontent, vdouble, vpublication, vversion,
                   vsfp, vpass, vremote, vhook, vpath>>
    /\ UNCHANGED nonBranchVars

\* what the hook can add to a listing
HookListings == {{}, {[name |-> "h", dir |-> FALSE]}}

InitBranch ==
    /\ vpublished \in SUBSET BranchFiles
    /\ vcontent \in SUBSET BranchFiles
    /\ vdouble \in BOOLEAN
    /\ vdouble => <<"f">> \in vcontent
    /\ vpublication \in BOOLEAN
    /\ vversion \in BOOLEAN
    /\ vsfp \in BOOLEAN
    /\ vpass \in BOOLEAN
    /\ vremote \in BOOLEAN
    /\ vhook \in HookListings
    /\ vpath \in BranchPaths
    /\ vresp = NoBranchResult
    /\ vpc = "branch"
    /\ InitStreamIdle
    /\ InitCacheRest
    /\ InitDispatchRest
    /\ InitCheckpointRest
    /\ InitRangeRest
    /\ InitServeRest
    /\ InitPersistRest
    /\ InitMatchRest
    /\ InitSourceRest
    /\ InitRemoteRest
    /\ InitPullRest

NextBranch ==
    \/ PublicationBranch
    \/ VersionBranch
    \/ NoBranch
    \/ BranchTail

SpecBranch == InitBranch /\ [][NextBranch]_vars

(***************************************************************************)
(* SpecSource: one request of a distribution that is no checkpoint, in     *)
(* Handler._match_and_stream from the distribution's repository,           *)
(* publication and repository_version to the branch entered.  A version is *)
(* its number in the repository; a publication is a row of srows.          *)
(***************************************************************************)
\* a Publication row
PublicationRow(pk, repository, version, pulp_created, complete) ==
    [pk |-> pk, repository |-> repository, version |-> version,
     pulp_created |-> pulp_created, complete |-> complete]

\* the repository of the distribution and another one
SourceRepository == 1
ForeignRepository == 2

SourcePublications ==
    {PublicationRow(1, SourceRepository, 1, 5, TRUE),
     PublicationRow(2, SourceRepository, 1, 1, FALSE),
     PublicationRow(3, SourceRepository, 2, 2, TRUE),
     PublicationRow(4, SourceRepository, 2, 3, TRUE),
     PublicationRow(5, SourceRepository, 2, 6, FALSE),
     PublicationRow(6, ForeignRepository, 3, 7, TRUE)}

\* Publication.objects.filter(repository_version__in=versions, complete=True)
AnyPublications(publications, repository) ==
    {p \in publications : p.repository = repository}
CompletePublications(publications, repository) ==
    {p \in publications : p.repository = repository /\ p.complete}

\* .alatest("repository_version", "pulp_created"): the last by version, then
\* by creation time
ALatest(publications) ==
    CHOOSE p \in publications :
        \A q \in publications :
            \/ q.version < p.version
            \/ q.version = p.version /\ q.pulp_created <= p.pulp_created

\* lines 742-764: publication and repo_version of a distribution
SelectSource(publications, latest_version, repository, publication, repo_version) ==
    IF repository = None
    THEN Source(publication, repo_version)
    ELSE LET found == IF publication = None
                      THEN CompletePublications(publications, repository)
                      ELSE {}
             chosen == IF found # {}
                       THEN Source(ALatest(found).pk, ALatest(found).version)
                       ELSE Source(publication, repo_version)
         IN  IF chosen.repo_version = None
             THEN Source(chosen.publication, latest_version)
             ELSE chosen

\* lines 742-764
SourceSelect ==
    /\ spc = "select"
    /\ sselected' = SelectSource(srows, slatest, srepository, spublication,
                                 sversion)
    /\ spc' = "branch"
    /\ UNCHANGED <<srows, slatest, srepository, spublication, sversion, ssfp,
                   sbranch>>
    /\ UNCHANGED nonSourceVars

SourceBranch ==
    /\ spc = "branch"
    /\ sbranch' = BranchOf(sselected, ssfp)
    /\ spc' = "done"
    /\ UNCHANGED <<srows, slatest, srepository, spublication, sversion, ssfp,
                   sselected>>
    /\ UNCHANGED nonSourceVars

InitSource ==
    /\ srows \in SUBSET SourcePublications
    /\ slatest \in 2..3
    /\ srepository \in {None, SourceRepository}
    /\ spublication \in {None} \cup {p.pk : p \in srows}
    /\ sversion \in {None, 1, 2}
    /\ ssfp \in BOOLEAN
    /\ sselected = Source(None, None)
    /\ sbranch = "none"
    /\ spc = "select"
    /\ InitStreamIdle
    /\ InitCacheRest
    /\ InitDispatchRest
    /\ InitCheckpointRest
    /\ InitRangeRest
    /\ InitServeRest
    /\ InitPersistRest
    /\ InitMatchRest
    /\ InitBranchRest
    /\ InitRemoteRest
    /\ InitPullRest

NextSource ==
    \/ SourceSelect
    \/ SourceBranch

SpecSource == InitSource /\ [][NextSource]_vars

(***************************************************************************)
(* SpecRemote: one request that reached the pull-through statements of     *)
(* Handler._match_and_stream with distro.remote set: the RemoteArtifact    *)
(* lookup, then Handler._stream_content_artifact for a known               *)
(* RemoteArtifact or Handler._stream_remote_artifact for a new one.        *)
(***************************************************************************)
\* the statuses an upstream answers an error with
UpstreamErrors == {404, 503}

\* Handler._stream_content_artifact: the first eligible RemoteArtifact whose
\* upstream answers; a ClientResponseError is skipped; HTTPNotFound at the end
LadderResponse(eligible, upstream) ==
    IF \E i \in 1..eligible : upstream[i] = 0
    THEN RemoteResponse("StreamResponse", 200)
    ELSE RemoteResponse("HTTPNotFound", 404)

\* lines 918-933: the try of the new RemoteArtifact; a ClientResponseError
\* becomes an HTTPError with its status
EphemeralResponse(upstream) ==
    IF upstream[1] = 0
    THEN RemoteResponse("StreamResponse", 200)
    ELSE RemoteResponse("HTTPError", upstream[1])

\* lines 888-917: the url, the RemoteArtifact, its artifact
RemoteLookup ==
    /\ upc = "lookup"
    /\ IF ~uurl
       THEN /\ uresp' = RemoteResponse("PathNotResolved", 404)
            /\ upc' = "done"
       ELSE IF ura /\ uartifact
       THEN /\ uresp' = RemoteResponse("serve_content_artifact", 200)
            /\ upc' = "done"
       ELSE /\ upc' = IF ura THEN "known" ELSE "new"
            /\ UNCHANGED uresp
    /\ UNCHANGED <<uurl, ura, uartifact, ueligible, uupstream>>
    /\ UNCHANGED nonRemoteVars

\* lines 907-909 and 980-992: the known RemoteArtifact is streamed
RemoteStreamKnown ==
    /\ upc = "known"
    /\ uresp' = LadderResponse(ueligible, uupstream)
    /\ upc' = "done"
    /\ UNCHANGED <<uurl, ura, uartifact, ueligible, uupstream>>
    /\ UNCHANGED nonRemoteVars

\* lines 911-933: a new ContentArtifact and RemoteArtifact are streamed
RemoteStreamNew ==
    /\ upc = "new"
    /\ uresp' = EphemeralResponse(uupstream)
    /\ upc' = "done"
    /\ UNCHANGED <<uurl, ura, uartifact, ueligible, uupstream>>
    /\ UNCHANGED nonRemoteVars

InitRemote ==
    /\ uurl \in BOOLEAN
    /\ ura \in BOOLEAN
    /\ uartifact \in BOOLEAN
    /\ uartifact => ura
    /\ ueligible \in 0..NumMirrors
    /\ uupstream \in [1..NumMirrors -> {0} \cup UpstreamErrors]
    /\ uresp = RemoteResponse("none", 0)
    /\ upc = "lookup"
    /\ InitStreamIdle
    /\ InitCacheRest
    /\ InitDispatchRest
    /\ InitCheckpointRest
    /\ InitRangeRest
    /\ InitServeRest
    /\ InitPersistRest
    /\ InitMatchRest
    /\ InitBranchRest
    /\ InitSourceRest
    /\ InitPullRest

NextRemote ==
    \/ RemoteLookup
    \/ RemoteStreamKnown
    \/ RemoteStreamNew

SpecRemote == InitRemote /\ [][NextRemote]_vars

(***************************************************************************)
(* SpecPull: concurrent first pull-through requests for one content unit   *)
(* of one remote, each in Handler._save_artifact, one transaction each.    *)
(* A transaction reads what is committed; an insert that meets an          *)
(* uncommitted row of the same key waits for that transaction to end.      *)
(* The database may hold the Artifact and the Content already, with        *)
(* ContentArtifact rows that have or lack their artifact.                  *)
(***************************************************************************)
\* the id of a row that was committed before the requests
OldRow == 0

\* lines 1020-1041: artifact.save(), or the committed row on IntegrityError
PullArtifactSave(p) ==
    /\ wpc[p] = "artifact"
    /\ \A q \in Proc \ {p} : ~wtx[q].artifact
    /\ wtx' = [wtx EXCEPT ![p].artifact = (wart = {})]
    /\ wpc' = [wpc EXCEPT ![p] = "content"]
    /\ UNCHANGED <<wart, wcontent, wcas, wras, wpaths, wurls, wlist>>
    /\ UNCHANGED nonPullVars

\* lines 1051-1064: content.save() with its ContentArtifacts, or on
\* IntegrityError the committed Content and the list of its rows
PullContentSave(p) ==
    /\ wpc[p] = "content"
    /\ \A q \in Proc \ {p} : ~wtx[q].content
    /\ IF wcontent = {}
       THEN LET saved == SaveContent(ArtifactsOf(wpaths)) IN
            /\ wtx' = [wtx EXCEPT ![p].content = TRUE, ![p].cas = saved.cas]
            /\ wlist' = [wlist EXCEPT ![p] = saved.cas]
            /\ wpc' = [wpc EXCEPT ![p] = "ras"]
       ELSE /\ wlist' = [wlist EXCEPT ![p] = wcas]
            /\ wpc' = [wpc EXCEPT ![p] = "upsert"]
            /\ UNCHANGED wtx
    /\ UNCHANGED <<wart, wcontent, wcas, wras, wpaths, wurls>>
    /\ UNCHANGED nonPullVars

\* lines 1065-1074: the bulk_create with update_conflicts, decided on the
\* list read at line 1064; it waits for uncommitted rows of its paths
PullUpsert(p) ==
    /\ wpc[p] = "upsert"
    /\ LET existing == ExistingContent(wlist[p], ArtifactsOf(wpaths))
           written == IF existing.cas = wlist[p] THEN {}
                      ELSE {ca \in existing.cas :
                               ca.relative_path \in ArtifactsOf(wpaths)}
       IN /\ \A q \in Proc \ {p} :
                RelativePaths(wtx[q].cas) \cap RelativePaths(written) = {}
          /\ wtx' = [wtx EXCEPT ![p].cas = written]
          /\ wlist' = [wlist EXCEPT ![p] =
                         {ca \in wcas : ca.relative_path
                                           \notin RelativePaths(written)}
                         \cup written]
    /\ wpc' = [wpc EXCEPT ![p] = "ras"]
    /\ UNCHANGED <<wart, wcontent, wcas, wras, wpaths, wurls>>
    /\ UNCHANGED nonPullVars

\* lines 1075-1086: one RemoteArtifact per listed ContentArtifact with a
\* url; the IntegrityError of a committed row is logged and ignored
PullRemoteArtifacts(p) ==
    /\ wpc[p] = "ras"
    /\ \A q \in Proc \ {p} :
          wtx[q].ras \cap RelativePaths(wlist[p]) \cap wurls = {}
    /\ wtx' = [wtx EXCEPT ![p].ras =
                  SaveRemoteArtifacts(wras, wlist[p], wurls) \ wras]
    /\ wpc' = [wpc EXCEPT ![p] = "commit"]
    /\ UNCHANGED <<wart, wcontent, wcas, wras, wpaths, wurls, wlist>>
    /\ UNCHANGED nonPullVars

\* line 1022, the end of the outer transaction.atomic(), and the return
PullCommit(p) ==
    /\ wpc[p] = "commit"
    /\ wart' = wart \cup (IF wtx[p].artifact THEN {p} ELSE {})
    /\ wcontent' = wcontent \cup (IF wtx[p].content THEN {p} ELSE {})
    /\ wcas' = {ca \in wcas : ca.relative_path
                                 \notin RelativePaths(wtx[p].cas)}
               \cup wtx[p].cas
    /\ wras' = wras \cup wtx[p].ras
    /\ wtx' = [wtx EXCEPT ![p] = Writes(FALSE, FALSE, {}, {})]
    /\ wpc' = [wpc EXCEPT ![p] = "done"]
    /\ UNCHANGED <<wpaths, wurls, wlist>>
    /\ UNCHANGED nonPullVars

InitPull ==
    /\ wart \in {{}, {OldRow}}
    /\ wcontent \in {{}, {OldRow}}
    /\ wpaths \in {1..k : k \in 1..MaxPaths}
    /\ wurls \in SUBSET (1..MaxPaths)
    /\ wcas \in SUBSET AllContentArtifactRows
    /\ UniqueRelativePaths(wcas)
    /\ wcontent = {} => wcas = {}
    /\ wcas # {} => RelativePaths(wcas) = wpaths
    /\ \A ca \in wcas : ca.artifact => wart # {}
    /\ wras \in SUBSET (RelativePaths(wcas) \cap wurls)
    /\ wtx = [p \in Proc |-> Writes(FALSE, FALSE, {}, {})]
    /\ wlist = [p \in Proc |-> {}]
    /\ wpc = [p \in Proc |-> "artifact"]
    /\ InitStreamIdle
    /\ InitCacheRest
    /\ InitDispatchRest
    /\ InitCheckpointRest
    /\ InitRangeRest
    /\ InitServeRest
    /\ InitPersistRest
    /\ InitMatchRest
    /\ InitBranchRest
    /\ InitSourceRest
    /\ InitRemoteRest

NextPull ==
    \E p \in Proc :
        \/ PullArtifactSave(p)
        \/ PullContentSave(p)
        \/ PullUpsert(p)
        \/ PullRemoteArtifacts(p)
        \/ PullCommit(p)

SpecPull == InitPull /\ [][NextPull]_vars

(***************************************************************************)
(* The claims.                                                             *)
(***************************************************************************)
Last(s) == s[Len(s)]

\* the whole upstream body of mirror m
FullBody(m) == [i \in 1..NumChunks |-> Chunk(m, i)]

\* the failed tries of p were all upstream response errors before any byte
OnlyResponseErrors(p) ==
    \A i \in DOMAIN fails[p] :
        fails[p][i][2] = "ClientResponseError" /\ ~fails[p][i][3]

\* C1 (SpecCache): a request that is answered from the response cache for a
\* distribution with a content guard has had the guard's permit check run for
\* it in the auth gate, and the check let it pass, whatever the interleaving
\* of the requests and of the reads, writes and expiries of the flag.
C1_CachedAfterGuardCheck ==
    \A r \in Proc :
        coutcome[r] = "cached" =>
            LET distro == MatchDistribution(cpath[r], TRUE) IN
                /\ distro.kind = "distro"
                /\ guarded[distro.base] => cchecked[r] /\ cpermit[r]

\* C1, its case: a request for the guarded distribution was answered from the
\* cache after its own guard check.
C1_Witness ==
    \E r \in Proc :
        /\ coutcome[r] = "cached"
        /\ cbk[r] = <<"a">>
        /\ cpresent[r] = "True"
        /\ cchecked[r]

\* C2 (SpecLadder), as claimed: once the headers or a body byte of a mirror's
\* response went out to the client, no further RemoteArtifact is tried, and
\* every failure after that point ends the request with the failure.
C2_SentFailurePropagates ==
    \A p \in Proc :
        /\ ~lateTry[p]
        /\ \A i \in DOMAIN fails[p] :
              fails[p][i][3] =>
                  /\ i = Len(fails[p])
                  /\ pc[p] = "done"
                  /\ result[p] \notin {"ok", "HTTPNotFound"}

\* C3 (SpecLadder): when the first k-1 eligible mirrors each fail with an
\* upstream response error before any byte was sent, the k-th one is the
\* one tried next, and a request that then succeeds has given the client
\* exactly the body of the k-th mirror and has contacted the first k mirrors
\* and no other.
C3_KthMirrorServes ==
    \A p \in Proc :
        OnlyResponseErrors(p) =>
            /\ pc[p] \in {"try", "run", "stream"} => idx[p] = Len(fails[p]) + 1
            /\ result[p] = "ok" =>
                  /\ idx[p] = Len(fails[p]) + 1
                  /\ body[p] = FullBody(elig[p][idx[p]])
                  /\ contacted[p] = {elig[p][j] : j \in 1..idx[p]}

\* C3, its case: every eligible mirror but the last answered with a response
\* error and the last one served the request.
C3_Witness ==
    \E p \in Proc :
        /\ result[p] = "ok"
        /\ Len(elig[p]) = NumMirrors
        /\ Len(fails[p]) = NumMirrors - 1
        /\ OnlyResponseErrors(p)

DigestFailed(p) ==
    fails[p] # << >> /\ Last(fails[p])[2] = "DigestValidationError"

C5_State ==
    \A p \in Proc :
        /\ \A i \in DOMAIN fails[p] :
              fails[p][i][2] = "DigestValidationError" => i = Len(fails[p])
        /\ DigestFailed(p) =>
              /\ pc[p] = "done"
              /\ result[p] = "RuntimeError"
              /\ linger[p]
              /\ ~eof[p]
              /\ art[p] = NoArtifact
              /\ ~pendingRow[p]
              /\ failedAt[Last(fails[p])[1]] # NoTime
              /\ contacted[p] = {elig[p][j] : j \in 1..Len(fails[p])}

C5_Step ==
    \A p \in Proc :
        (~DigestFailed(p) /\ DigestFailed(p)') =>
            /\ failedAt'[Last(fails'[p])[1]] = now
            /\ rows' = rows
            /\ caArtifact' = caArtifact
            /\ files' = files

Started(p) == pc[p] \notin {"idle", "unused"} /\ result[p] # "local"

\* when p built its queryset, failed_at of mirror m was within the cooldown
InCooldown(p, m) ==
    /\ seenFailedAt[p][m] # NoTime
    /\ startTime[p] - seenFailedAt[p][m] <= Cooldown

\* C6 (SpecLadder): a request never acquires a downloader for a mirror whose
\* failed_at was within the cooldown when the request started, and every
\* mirror that never failed or whose cooldown had elapsed by then is among
\* the mirrors the request may try.
C6_CooldownSkips ==
    \A p \in Proc :
        Started(p) =>
            \A m \in Mirrors :
                /\ InCooldown(p, m) => m \notin contacted[p]
                /\ ~InCooldown(p, m) => \E i \in DOMAIN elig[p] : elig[p][i] = m

\* C6, its case: a request that started within the cooldown of a digest
\* failure of an earlier request skipped that mirror and was served.
C6_Witness ==
    \E p \in Proc, m \in Mirrors :
        /\ Started(p)
        /\ seenFailedAt[p][m] > 0
        /\ InCooldown(p, m)
        /\ result[p] = "ok"

\* every request has ended, and so has its persistence
AllDone == \A p \in Proc : pc[p] = "done"

C7_State ==
    /\ Cardinality(rows) <= 1
    /\ caArtifact # NoArtifact => \E r \in rows : r.id = caArtifact
    /\ AllDone => Cardinality(rows) = 1 /\ caArtifact # NoArtifact

C7_Step == rows \subseteq rows'

C8_LosersUnlink ==
    /\ \A r \in rows : r.file \in files /\ r.file \notin unlinked
    /\ \A p \in Proc :
          (art[p] # NoArtifact /\ art[p] # p) => (p \in unlinked /\ p \notin files)
    /\ AllDone => files = {r.file : r \in rows}

\* C8, its case: a race between downloads: one request's file backs the
\* row, the other request unlinked its own.
C8_Witness ==
    /\ AllDone
    /\ \E p, q \in Proc :
          /\ p # q
          /\ NewArtifact(p) \in rows
          /\ q \in unlinked
          /\ files = {p}

\* C9 (SpecSave): the store never holds the Artifact row of a save without
\* the ContentArtifact linked to it, and a task cancelled while its
\* persistence runs stays in the persistence until it has committed: when it
\* is over, the ContentArtifact references the existing Artifact the save
\* resolved to.
C9_ShieldedPersistence ==
    /\ \A r \in rows : r.id \in Proc => caArtifact = r.id
    /\ \A p \in Proc :
          cancelledIn[p] = "persist" =>
              /\ pc[p] \in PersistPcs \cup {"done"}
              /\ pc[p] = "done" =>
                    /\ art[p] # NoArtifact
                    /\ caArtifact = art[p]
                    /\ \E r \in rows : r.id = art[p]

\* C9, its case: the request whose row became the Artifact was cancelled
\* during its persistence.
C9_Witness ==
    \E p \in Proc :
        /\ cancelledIn[p] = "persist"
        /\ pc[p] = "done"
        /\ caArtifact = p
        /\ NewArtifact(p) \in rows

RootRequested ==
    /\ ddistro # NoDistro
    /\ dpath.segs = ddistro.base_path
    /\ ~dpath.slash

\* the guard of the resolved distribution raises PermissionError for the
\* request
Denied == ddistro # NoDistro /\ ddistro.content_guard /\ dguard # "permit"

\* C11 (SpecDispatch), as claimed: every request whose path p has no trailing
\* slash and is exactly the base_path of the distribution it resolves to is
\* answered with a 301 redirect to p + '/'.
C11_RootAlwaysRedirects ==
    (RootRequested /\ dpc = "done") =>
        /\ dresp.status = 301
        /\ dresp.location = [segs |-> dpath.segs, slash |-> TRUE]

\* C11 (SpecDispatch), amended: a request whose path p has no trailing slash
\* and is exactly the base_path of the distribution it resolves to is
\* answered with a 301 redirect to p + '/' when the guard of the distribution
\* lets it pass, and with 403 when the guard denies it; nothing is dispatched
\* for it either way.
C11_RootRedirects ==
    (RootRequested /\ dpc \in {"handler", "branch", "done"}) =>
        /\ dpc = "done"
        /\ dinvoked = << >>
        /\ IF Denied
           THEN dresp.status = 403
           ELSE /\ dresp.status = 301
                /\ dresp.kind = "HTTPMovedPermanently"
                /\ dresp.location = [segs |-> dpath.segs, slash |-> TRUE]

\* C11, its case: the root of an unguarded distribution was requested
\* without the slash and the redirect was sent.
C11_Witness ==
    /\ RootRequested
    /\ ~ddistro.content_guard
    /\ dpc = "done"
    /\ dresp.status = 301
    /\ dresp.location = [segs |-> ddistro.base_path, slash |-> TRUE]

\* C12 (SpecDispatch): a request that resolves to a distribution whose guard
\* raises a permission error ends with 403 and the error's message as reason
\* before anything is dispatched: content_handler, checkpoint resolution,
\* listing, serving and streaming are invoked only for a request that passed
\* the guard gate. A distribution without a guard never gives 403.
C12_GuardBeforeDispatch ==
    /\ (Denied /\ dpc \notin {"match", "permit"}) =>
          /\ dpc = "done"
          /\ dresp.status = 403
          /\ dresp.reason = dguard
          /\ dinvoked = << >>
    /\ dinvoked # << >> => (ddistro # NoDistro /\ ~Denied)
    /\ dresp.status = 403 => Denied
    /\ (ddistro # NoDistro /\ ~ddistro.content_guard) => dresp.status # 403

\* C12, its case: the guard denied a request for a file of the guarded
\* distribution.
C12_Witness ==
    /\ Denied
    /\ dpc = "done"
    /\ dresp.status = 403
    /\ dresp.reason = "expired"
    /\ dpath.segs = <<"a", "x">>

\* the Distribution rows of the current domain whose base_path is the request
\* path cut at one of its slashes (the whole path included)
AncestorMatches ==
    {d \in drows :
        /\ d.pulp_domain = CurrentDomain
        /\ \E k \in 1..Len(dpath.segs) : d.base_path = SubSeq(dpath.segs, 1, k)}

\* C13 (SpecDispatch): for every request path and every set of Distribution
\* rows, a distribution the resolver returns is a row of the current domain
\* whose base_path is an ancestor prefix of the request path, and it is the
\* only such row; with more than one such row the resolver returns none.
C13_AtMostOneDistribution ==
    /\ ddistro # NoDistro =>
          /\ ddistro \in drows
          /\ ddistro.pulp_domain = CurrentDomain
          /\ AncestorMatches = {ddistro}
    /\ (dpc \notin {"idle", "match"} /\ Cardinality(AncestorMatches) # 1) =>
          (ddistro = NoDistro /\ dpc = "done")

\* C13, its case: both domains have a distribution at the same base_path and
\* the resolver returned the one of the current domain.
C13_Witness ==
    /\ ddistro # NoDistro
    /\ ddistro.base_path = <<"a">>
    /\ \E d \in drows : d.pulp_domain # CurrentDomain /\ d.base_path = <<"a">>
    /\ dpath.segs = <<"a", "x">>

\* the first segment of the path after the base_path
FirstSeg == kpath.segs[1]

\* the path after the base_path begins with a timestamp of a real date and
\* time
Stamped == kpath.segs # << >> /\ FirstSeg.shaped /\ FirstSeg.valid

\* the path after the base_path is a timestamp, alone or followed by a slash
\* and a relative path
WellFormed == Stamped /\ FirstSeg.tail = ""

\* the requested second begins after the current time
InFuture == Strptime(FirstSeg.stamp) > know

\* the checkpoint publications of the repository of the distribution that
\* were created before the end of the requested second
UpToRequested ==
    {q \in kpubs : /\ q.checkpoint
                   /\ q.repository = DistroRepository
                   /\ q.pulp_created \div TicksPerSecond <= FirstSeg.stamp}

\* the resolver is over for the request
Selected == kpc \in {"strip", "done"}

C15_NewestUpToTimestamp ==
    /\ kpub # NoPublication =>
          /\ kpub \in UpToRequested
          /\ \A q \in UpToRequested : q.pulp_created <= kpub.pulp_created
    /\ (Selected /\ Stamped /\ ~InFuture /\ UpToRequested # {}) =>
          kpub # NoPublication

\* C15, its case: the selected publication was created inside the requested
\* second, after its start, and an older checkpoint publication exists.
C15_Witness ==
    /\ kpub # NoPublication
    /\ kpub.pulp_created > Strptime(FirstSeg.stamp)
    /\ \E q \in UpToRequested : q.pulp_created < kpub.pulp_created

\* C16 (SpecCheckpoint), as claimed: when the timestamp of the selected
\* publication, formatted, differs from the requested one, the response is a
\* 301 redirect to [domain/]base_path/canonical timestamp/rel_path and nothing
\* is served; when they are equal, no redirect is emitted and the publication
\* is served.
C16_RedirectOrServe ==
    (kpc = "done" /\ kpub # NoPublication) =>
        IF FormatCheckpointTimestamp(kpub.pulp_created) # FirstSeg.stamp
        THEN /\ kresp.status = 301
             /\ kresp.location =
                   RedirectSubPath(kdomain,
                                   FormatCheckpointTimestamp(kpub.pulp_created),
                                   Group2(kpath))
             /\ krel = EmptyPath
        ELSE /\ kresp.status # 301
             /\ kresp.kind = "publication"

C18_StrictShape ==
    (kpc = "done" /\ kpath # EmptyPath) =>
        IF WellFormed
        THEN /\ kresp.kind \in {"publication", "HTTPMovedPermanently",
                                "PathNotResolved"}
             /\ kresp.kind = "publication" => krel = AfterFirstSlash(kpath)
             /\ kresp.kind = "PathNotResolved" => (InFuture \/ UpToRequested = {})
        ELSE kresp.status = 404

\* the requested range [RangeFrom, RangeTo) of the upstream body
RangeFrom == IF gstart = None THEN 0 ELSE gstart
RangeTo == IF gstop = None THEN glen ELSE gstop

\* upstream[a : min(b, length)], by position
RequestedSlice ==
    [n \in 1..Max(0, Min(RangeTo, glen) - RangeFrom) |-> RangeFrom + n - 1]

\* C19 (SpecRange), as claimed: for a ranged GET and every way the upstream
\* body is cut into chunks, no byte outside the requested range is ever
\* forwarded, and when the body is through, the bytes forwarded are exactly
\* upstream[a : min(b, length)].
C19_ExactSlice ==
    (gstatus = 206 /\ gmethod = "GET") =>
        /\ \A i \in DOMAIN gsent : RangeFrom <= gsent[i] /\ gsent[i] < RangeTo
        /\ gpc = "done" => gsent = RequestedSlice

\* C20 (SpecRange), as claimed: a ranged response has status 206, Content-Range
\* 'bytes start-(stop-1)/upstream length' with stop the exclusive end of the
\* slice, and a Content-Length equal to the length of the slice, which is the
\* number of bytes forwarded, whether or not RemoteArtifact.size is known.
\* Stated for a GET whose upstream sends a Content-Length and a body.
C20_RangeHeaders ==
    LET ranged == gstatus = 206 /\ gmethod = "GET" /\ gclheader /\ glen >= 1
    IN  /\ (gpc \in {"data", "done"} /\ ranged) =>
              /\ gcrange = <<RangeFrom, Min(RangeTo, glen) - 1, glen>>
              /\ gclen = Min(RangeTo, glen) - RangeFrom
        /\ (gpc = "done" /\ ranged) => gclen = Len(gsent)

\* RemoteArtifact.size is known (not None)
SizeKnown == gsize # None

\* the Range header cannot be satisfied, as the claim reads it
RangeRejected ==
    \/ gmalformed
    \/ SizeKnown /\ gstart # None /\ gstart >= gsize

\* C21 (SpecRange), as claimed: in a remote try, a malformed Range header or a
\* range start at or beyond the known RemoteArtifact.size gives 416 with
\* 'Content-Range: bytes */<size>' ('*' when the size is unknown), before a
\* downloader is acquired: nothing is written to the client, nothing is
\* persisted.
C21_UnsatisfiableIs416 ==
    (gpc # "check" /\ RangeRejected) =>
        /\ gstatus = 416
        /\ gcrange = <<Star, IF SizeKnown THEN gsize ELSE Star>>
        /\ ~gdownloader
        /\ gsent = << >>
        /\ ~gsaved

\* the request was answered by a response that serves the artifact
ArtifactServed == aresp.kind \in {"FileResponse", "ArtifactResponse", "HTTPFound"}

\* a range with its start or its stop beyond the size of the artifact
OutOfBounds ==
    \/ arange.kind \in {"from", "slice"} /\ arange.start > asize
    \/ arange.kind = "slice" /\ arange.stop > asize

\* C22 (SpecServe), as claimed: the Artifact Responder answers a malformed
\* range and a range with its start or stop beyond the artifact's size S with
\* 416 and 'Content-Range: bytes */S', and serves no artifact. Stated for
\* S >= 1 and a domain that redirects to S3, where the response the client
\* gets is the handler's own.
C22_OutOfBoundsIs416 ==
    (/\ apc = "done" /\ asize >= 1
     /\ astorage = S3Boto3Storage /\ aredirect
     /\ (arange.kind = "error" \/ OutOfBounds)) =>
        /\ aresp.status = 416
        /\ aresp.content_range = <<Star, asize>>
        /\ ~ArtifactServed

\* the range starts inside the artifact, or there is none
StartsInside ==
    \/ arange.kind \in {"none", "suffix"}
    \/ arange.kind \in {"from", "slice"} /\ arange.start < asize

\* the Content-Length delivered to the client, as the claim lists it
EffectiveContentLength ==
    CASE arange.kind = "none" -> asize
      [] arange.kind = "slice" /\ arange.stop <= asize ->
             arange.stop - arange.start
      [] arange.kind = "slice" /\ arange.stop > asize -> asize - arange.start
      [] arange.kind = "from" -> asize - arange.start
      [] arange.kind = "suffix" -> Min(0 - arange.start, asize)
      [] OTHER -> 0

\* C23 (SpecServe), as claimed: a request served from a local artifact adds
\* to artifacts_size_counter exactly once, the effective Content-Length
\* (S without a range, b-a inside the file, S-a for a stop beyond S or an
\* open end, the suffix length for a suffix range), and nothing when the
\* request ends in 416. Stated for the ranges that start inside the file.
C23_CounterIsEffectiveLength ==
    apc = "done" =>
        IF aresp.status = 416
        THEN aadds = 0 /\ acounter = 0
        ELSE (StartsInside /\ ArtifactServed) =>
                /\ aadds = 1
                /\ acounter = EffectiveContentLength

\* the response shape the storage backend and the redirect setting call for,
\* the file of a filesystem artifact being on disk or not
ShapeFor(storage_class, redirect, on_disk) ==
    IF storage_class = FileSystem
    THEN IF on_disk THEN "FileResponse" ELSE "Exception"
    ELSE IF ~redirect THEN "ArtifactResponse"
    ELSE IF storage_class \in {S3Boto3Storage, AzureStorage, GoogleCloudStorage}
    THEN "HTTPFound"
    ELSE "NotImplementedError"

\* what C24 says of a request that got past the range check, for a given
\* reading of 'the file is on disk'
ShapeClaim(on_disk) ==
    (apc = "done" /\ arange.kind # "error") =>
        /\ aresp.kind = ShapeFor(astorage, aredirect, on_disk)
        /\ aresp.kind \in {"FileResponse", "ArtifactResponse"} =>
               aresp.status = 200
        /\ aresp.kind = "HTTPFound" => aresp.status = 302
        /\ (aresp.kind = "HTTPFound" /\ astorage = S3Boto3Storage) =>
               "Content-Disposition" \in aresp.parameters
        /\ ArtifactServed => aresp.headers.XPulpArtifactSize = asize

\* C24 (SpecServe), as claimed: the response shape depends on the storage
\* backend and the redirect setting only (filesystem: a 200 file response;
\* no redirect: a 200 proxied body; S3: 302 with response overrides; Azure,
\* GCS: 302; others: not implemented), and every response carries
\* X-PULP-ARTIFACT-SIZE equal to the artifact's size.
C24_ShapeByBackendOnly == ShapeClaim(TRUE)

\* C24 (SpecServe), amended: as claimed, except that for filesystem storage
\* the shape also depends on the file: a 200 file response when the file is
\* at its storage path, an Exception when it is not.
C24_ShapeByBackend == ShapeClaim(aexists)

\* an S3 redirect for a ranged HEAD request, and a filesystem artifact whose
\* file is gone
C24_Witness ==
    /\ apc = "done"
    /\ \/ /\ astorage = S3Boto3Storage /\ aredirect
          /\ arange.kind = "slice" /\ amethod = "HEAD"
          /\ aresp.kind = "HTTPFound"
       \/ /\ astorage = FileSystem /\ ~aexists
          /\ aresp.kind = "Exception"

\* C25 (SpecServe), as claimed: every response that serves a stored artifact,
\* the file response and the proxied response included, carries
\* 'Content-Disposition: attachment;filename=<basename of the relative path>'.
C25_ContentDispositionEverywhere ==
    (apc = "done" /\ ArtifactServed) =>
        aresp.headers.ContentDisposition =
            "attachment;filename=" \o Basename(arelpath)

\* a later request for a path whose first request, without Range, was fetched
\* on demand and persisted
LaterAfterPersisted == gpc = "later" /\ gsaved /\ gstatus = 200

\* the later request was served from storage, no mirror was asked, and its
\* body is the body of the first response
ServedSameBytes ==
    /\ glater.kind = "FileResponse"
    /\ glater.bytes = gsent

PersistDone == tpc = "done"

\* the fetch ran _save_artifact
Persisted ==
    PersistDone /\ toutcome = "ok" /\ tsave /\ tpolicy # "streamed"

\* C27 as claimed: a successful fetch inserts at most one Artifact row, at
\* most one ContentArtifact row and at most one Content row, and a fetch
\* that fails inserts none.
C27_AtMostOneRowEach ==
    PersistDone =>
        /\ tnew.Artifact <= 1
        /\ tnew.ContentArtifact <= 1
        /\ tnew.Content <= 1
        /\ toutcome # "ok" => tnew = NewRows(0, 0, 0)

\* C27, amended: a successful fetch inserts at most one Artifact row, at
\* most one Content row and at most one ContentArtifact row per relative
\* path of the content unit (one row when the unit has a single artifact;
\* none on the normal on-demand path, which updates the saved row); a
\* fetch that fails inserts none.
C27_AtMostOneRowPerPath ==
    PersistDone =>
        /\ tnew.Artifact <= 1
        /\ tnew.Content <= 1
        /\ tnew.ContentArtifact <= Cardinality(tpaths)
        /\ ~tadding => tnew.ContentArtifact = 0 /\ tnew.Content = 0
        /\ toutcome # "ok" => tnew = NewRows(0, 0, 0)

C27_Witness ==
    /\ Persisted
    /\ tadding
    /\ Cardinality(tpaths) = 2
    /\ tnew = NewRows(1, 1, 2)

\* the segments of a string: the pieces between its slashes
RECURSIVE SplitSlash(_)
SplitSlash(s) ==
    LET head == UpToSlash(s) IN
    IF Len(head) = Len(s) THEN <<head>>
    ELSE <<head>> \o SplitSlash(SubSeq(s, Len(head) + 2, Len(s)))

\* the segments of the request path, a final slash apart
RequestSegments ==
    SplitSlash(IF EndsInSlash(bpath) THEN SubSeq(bpath, 1, Len(bpath) - 1)
               ELSE bpath)

\* the distributions of the domain
DomainRows == {d \in brows : d.pulp_domain = CurrentDomain}

\* a, as a list of segments, starts b
SegmentPrefix(a, b) == Len(a) <= Len(b) /\ SubSeq(b, 1, Len(a)) = a

\* no base_path is the request path or one of its ancestors
NoAncestorDistribution ==
    \A d \in DomainRows : ~SegmentPrefix(SplitSlash(d.base_path), RequestSegments)

\* the distributions the request path is a proper ancestor of
Below ==
    {d \in DomainRows :
        /\ SegmentPrefix(RequestSegments, SplitSlash(d.base_path))
        /\ Len(RequestSegments) < Len(SplitSlash(d.base_path))}

\* the distributions a listing shows
Listable(d) ==
    ~d.hidden /\ ~d.artifact_distribution /\ (bhide => ~d.content_guard)

\* C28: with no distribution at the path or above it, a path that is an
\* ancestor of some base_path of the domain gets the listing of the
\* distinct next segments (of the distributions listings show) when it ends
\* in a slash and a 301 to the path with the slash when it does not; any
\* other path is PathNotResolved; a path that only matches the beginning of
\* a segment is not an ancestor.
C28_AncestorListing ==
    (bpc = "done" /\ NoAncestorDistribution) =>
        IF Below # {}
        THEN IF EndsInSlash(bpath)
             THEN /\ bres.kind = "DistroListings"
                  /\ bres.listing =
                       {SplitSlash(d.base_path)[Len(RequestSegments) + 1]
                            \o <<"/">> : d \in {b \in Below : Listable(b)}}
             ELSE /\ bres.kind = "HTTPMovedPermanently"
                  /\ bres.location = bpath \o <<"/">>
        ELSE bres.kind = "PathNotResolved"

\* a listing under a path that two distributions are below, one of them
\* hidden, while a third base_path starts with the same characters
C28_Witness ==
    /\ bpc = "done"
    /\ NoAncestorDistribution
    /\ bres.kind = "DistroListings"
    /\ Cardinality(Below) = 2
    /\ Cardinality(bres.listing) = 1
    /\ \E d \in DomainRows \ Below : StartsWith(d.base_path, RStripSlash(bpath))

\* the request went through the publication branch
InPublicationBranch == vpc \in {"tail", "done"} /\ vpublication

\* the branch decided the request itself
DecidedInBranch == vpc = "done" /\ vresp.stage \notin {"none", "remote"}

\* a ContentArtifact was served or streamed
ContentServed ==
    vresp.kind \in {"serve_content_artifact", "stream_content_artifact"}

\* the files of a set directly or deeper under the requested directory
Under(relative_paths) ==
    {f \in relative_paths :
        Len(f) > Len(vpath.segs) /\ SubSeq(f, 1, Len(vpath.segs)) = vpath.segs}

\* the stages of the publication branch, each as a question about the
\* publication: (a) index.html, (b) a listing, (c) the published artifact,
\* (d) the pass-through ContentArtifact
StageA == (vpath.segs \o <<"index.html">>) \in vpublished
StageB ==
    \/ Under(vpublished) # {}
    \/ vpass /\ Under(vcontent) # {}
    \/ vhook # {}
StageC == ~vpath.slash /\ vpath.segs \in vpublished
StageD == vpass /\ ~vpath.slash /\ vpath.segs \in vcontent

\* C29: in the publication branch the first of (a) published index.html,
\* (b) non-empty listing, (c) published artifact, (d) pass-through
\* ContentArtifact that finds something decides the outcome: (a) and (b)
\* answer 301 without the trailing slash, (a) serves index.html and (b) the
\* HTML listing with it; nothing found leaves the branch; and without
\* pass_through the branch serves published artifacts only.
C29_PublicationPrecedence ==
    InPublicationBranch =>
        /\ IF StageA
           THEN IF ~vpath.slash
                THEN vresp.kind = "HTTPMovedPermanently"
                ELSE /\ ContentServed
                     /\ vresp.stage = "published"
                     /\ vresp.relative_path = vpath.segs \o <<"index.html">>
           ELSE IF StageB
           THEN IF ~vpath.slash
                THEN vresp.kind = "HTTPMovedPermanently"
                ELSE vresp.kind = "HTTPOk" /\ vresp.listing # {}
           ELSE IF StageC
           THEN /\ ContentServed
                /\ vresp.stage = "published"
                /\ vresp.relative_path = vpath.segs
           ELSE IF StageD
           THEN /\ vresp.stage = "pass_through"
                /\ vresp.relative_path = vpath.segs
                /\ ContentServed \/ vresp.kind = "MultipleObjectsReturned"
           ELSE vresp.stage \in {"none", "remote"}
        /\ (~vpass /\ ContentServed) => vresp.relative_path \in vpublished

\* the pass-through stage serves a file that is not published, below a
\* directory the publication has other files in
C29_Witness ==
    /\ InPublicationBranch
    /\ vpc = "done"
    /\ vresp.stage = "pass_through"
    /\ ContentServed
    /\ vresp.relative_path \notin vpublished
    /\ vpublished # {}

\* the request went through the publication or the version branch
InABranch == vpublication \/ (vversion /\ ~vsfp)

\* index.html exists directly under the requested rel_path, in what the
\* branch serves from
IndexExists ==
    (vpath.segs \o <<"index.html">>) \in
        (IF vpublication THEN vpublished ELSE vcontent)

\* C30: with an index.html directly under the requested path, a request
\* without the trailing slash is answered 301, and index.html is served in
\* place of the directory only for the path with the slash, from a
\* publication and from a repository version alike.
C30_IndexNeedsSlash ==
    (vpc = "done" /\ InABranch /\ IndexExists) =>
        /\ ~vpath.slash => vresp.kind = "HTTPMovedPermanently"
        /\ (ContentServed /\
            vresp.relative_path = vpath.segs \o <<"index.html">>)
               => vpath.slash

\* the distribution has a repository and neither publication nor version
OnlyRepository ==
    srepository # None /\ spublication = None /\ sversion = None

\* the complete publications of the versions of the repository
RepositoryComplete ==
    {p \in srows : p.repository = srepository /\ p.complete}

ServedOrListed ==
    ContentServed \/ vresp.kind \in {"HTTPOk", "HTTPMovedPermanently"}

HookCalled == dinvoked # << >> /\ dinvoked[1] = "content_handler"

\* what follows the hook in the history: the phases the request went through
AfterHook == SubSeq(dinvoked, 2, Len(dinvoked))

\* C33: a result of distro.content_handler that is not None decides the
\* request: a ContentArtifact with an artifact is served, one without is
\* streamed, anything else is the response; the checkpoint, publication,
\* version and remote statements run only after a result of None.
C33_HookDecides ==
    (dpc = "done" /\ HookCalled) =>
        /\ dhook = "ContentArtifact" =>
               dresp.kind = "served" /\ AfterHook = <<"serve">>
        /\ dhook = "ContentArtifactOnDemand" =>
               dresp.kind = "streamed" /\ AfterHook = <<"stream">>
        /\ dhook = "Response" =>
               dresp.kind = "content_handler" /\ AfterHook = << >>
        /\ dresp.kind \notin {"served", "streamed", "content_handler"}
               => dhook = "None"

\* the hook of a checkpoint distribution returns a ContentArtifact without
\* an artifact: streamed, and no checkpoint is looked for
C33_Witness ==
    /\ dpc = "done"
    /\ HookCalled
    /\ ddistro.checkpoint
    /\ dhook = "ContentArtifactOnDemand"
    /\ dresp.kind = "streamed"

\* the requested path was tried upstream and every upstream tried answered
\* with the same error status
UpstreamErrorFor(status) ==
    /\ upc = "done"
    /\ uurl
    /\ ~uartifact
    /\ IF ura
       THEN ueligible >= 1 /\ \A i \in 1..ueligible : uupstream[i] = status
       ELSE uupstream[1] = status

\* C34: in the pull-through statements an upstream response error for the
\* requested path reaches the client as an HTTP error with the upstream's
\* status, for a known RemoteArtifact and for a new one alike.
C34_UpstreamStatusPassedOn ==
    \A status \in UpstreamErrors :
        UpstreamErrorFor(status) => uresp.status = status

\* the ContentArtifact references an Artifact row that exists, with its file
C36_State ==
    caArtifact # NoArtifact =>
        \E r \in rows : r.id = caArtifact /\ r.file \in files

\* a save that hit the unique violation and finds the row gone saves its
\* own Artifact and keeps its file; a save that returns has linked a row
\* that exists, with its file
C36_Step ==
    \A p \in Proc :
        /\ (pc[p] = "integrity" /\ pc'[p] = "link" /\ rows = {}) =>
               /\ art'[p] = NewArtifact(p).id
               /\ pendingRow'[p]
               /\ p \in files' /\ p \notin unlinked'
        /\ (pc[p] = "link" /\ pc'[p] = "saved") =>
               /\ caArtifact' = art[p]
               /\ \E r \in rows' : r.id = art[p] /\ r.file \in files'

PersistRows == <<trows, tcontent, tcas, tras>>

\* a download that succeeded persists exactly when the artifact is to be
\* saved and the policy is not "streamed"; one that does not persist ends
\* with every row as it was and the bytes written to the client
C35_Step ==
    (tpc = "run" /\ toutcome = "ok") =>
        LET keeps == tsave /\ tpolicy # "streamed" IN
        /\ tfinalized' <=> keeps
        /\ tpc' = "save" <=> keeps
        /\ ~keeps => /\ tpc' = "done"
                     /\ tsent'
                     /\ UNCHANGED PersistRows

\* only _save_artifact writes rows
C35_State ==
    (tpc = "done" /\ ~(toutcome = "ok" /\ tsave /\ tpolicy # "streamed")) =>
        tnew = NewRows(0, 0, 0)

\* C35 (SpecPersist): a remote try persists (the downloader's original
\* finalize is invoked and _save_artifact is called) iff save_artifact is
\* true and remote.policy is not "streamed"; otherwise no Artifact, Content,
\* ContentArtifact or RemoteArtifact row is created, the ContentArtifact
\* keeps its artifact, and the client still receives the bytes.
C35_PersistsIffSavedAndNotStreamed == []C35_State /\ [][C35_Step]_vars

\* a first pull-through fetch over a streamed remote ended: bytes sent,
\* finalize not invoked, nothing written although the remote has the url
C35_Witness ==
    /\ tpc = "done"
    /\ toutcome = "ok"
    /\ tsave
    /\ tpolicy = "streamed"
    /\ tadding
    /\ RequestedPath \in turls
    /\ tsent
    /\ ~tfinalized
    /\ ~trows /\ ~tcontent /\ tcas = {} /\ tras = {}
    /\ tnew = NewRows(0, 0, 0)

\* every concurrent save has returned
PullDone == \A p \in Proc : wpc[p] = "done"

\* never two rows of one key; a save that has not returned can go on or
\* waits for one that can; at the end one Content, one Artifact, one
\* ContentArtifact with its artifact per relative path and a RemoteArtifact
\* for each of them the remote has a url for
C37_State ==
    /\ Cardinality(wcontent) <= 1
    /\ Cardinality(wart) <= 1
    /\ UniqueRelativePaths(wcas)
    /\ ~PullDone => ENABLED NextPull
    /\ PullDone =>
          /\ Cardinality(wcontent) = 1
          /\ Cardinality(wart) = 1
          /\ wcas = {ContentArtifactRow(rp, TRUE) : rp \in wpaths}
          /\ wras = wpaths \cap wurls

\* a row that has its artifact keeps it
C37_Step == \A ca \in wcas : ca.artifact => ca \in wcas'

RegisteredPrefixes(r) ==
    {i \in DOMAIN BasePaths(cpath[r]) : Exists(BasePaths(cpath[r])[i])}

\* find_base_path_cached returns: with a registered prefix its key is that
\* prefix, and with or without one it is the base_path the resolver matches;
\* the probe never leaves the list of candidates
C38_Step ==
    \A r \in Proc :
        cpc[r] = "basekey" =>
            LET distro == MatchDistribution(cpath[r], ADD_TRAILING_SLASH) IN
            /\ coutcome'[r] # "IndexError"
            /\ cpc'[r] = "authget" =>
                  /\ distro.kind = "distro"
                  /\ cbk'[r] = distro.base
                  /\ RegisteredPrefixes(r) # {} =>
                        RegisteredPrefixes(r) =
                            {i \in DOMAIN BasePaths(cpath[r]) :
                                BasePaths(cpath[r])[i] = cbk'[r]}
            /\ (cpc'[r] = "done" /\ cpc[r] # cpc'[r]) =>
                  /\ RegisteredPrefixes(r) = {}
                  /\ distro.kind # "distro"

\* C38 (SpecCache): for every request path and every set of base paths
\* registered in the cache, find_base_path_cached returns the cache key of
\* the base_path the path resolver matches for the path: a registered
\* candidate prefix is identified exactly by the multiplied-index probe, and
\* on a miss the resolver's distribution base_path is used.
C38_BaseKeyIsResolvedBasePath == [][C38_Step]_vars

\* the key "a" is registered by a stored response, and the request for
\* a/x/y, whose second candidate it is, has got it as its base key
C38_Witness ==
    \E r \in Proc :
        /\ cpc[r] = "authget"
        /\ cpath[r] = [segs |-> <<"a", "x", "y">>, slash |-> FALSE]
        /\ BasePaths(cpath[r])[2] = <<"a">>
        /\ cbk[r] = <<"a">>
        /\ \E e \in cacheEntries : e[1] = <<"a">>

\* the flag of a distribution: "True" with a content guard, else "False"
GuardPresent(base) == IF guarded[base] THEN "True" ELSE "False"

\* the gate of one request: a flag read as "False" sends it past the
\* lookup and the check; the finally writes the flag of the distribution
\* when it was read as absent and leaves every flag alone otherwise; a
\* denial is written as "True" and ends the request with HTTPForbidden
C39_Gate(r) ==
    /\ (cpc[r] = "authget" /\ cpc'[r] # "authget"
                           /\ cacheFlag[cbk[r]] = "False") =>
          /\ cpc'[r] = "lookup"
          /\ cchecked'[r] = cchecked[r]
          /\ cguard'[r] = cguard[r]
          /\ UNCHANGED cacheFlag
    /\ (cpc[r] = "authset" /\ cpc'[r] # "authset") =>
          LET distro == MatchDistribution(cpath[r], ADD_TRAILING_SLASH) IN
          /\ IF cpresent[r] = "None"
             THEN cacheFlag' =
                     [cacheFlag EXCEPT ![cbk[r]] = GuardPresent(distro.base)]
             ELSE UNCHANGED cacheFlag
          /\ (guarded[distro.base] /\ ~cpermit[r]) =>
                coutcome[r] = "HTTPForbidden" /\ cpc'[r] = "done"

\* a flag changes only by the write of a gate that read it as absent, or
\* by expiry
C39_Step ==
    /\ \A r \in Proc : C39_Gate(r)
    /\ \A bk \in BaseKeys :
          cacheFlag'[bk] # cacheFlag[bk] =>
              \/ cacheFlag'[bk] = "None"
              \/ \E r \in Proc :
                    /\ cpc[r] = "authset" /\ cpc'[r] # "authset"
                    /\ cbk[r] = bk
                    /\ cpresent[r] = "None"

\* C39 (SpecCache): the auth gate writes DISTRO#GUARD#PRESENT only when it
\* read the flag as absent and never overwrites a flag it read as present;
\* it writes "True" when the distribution has a content guard, whether the
\* guard permitted or denied (the denial still ends as 403), and "False"
\* when it has none; with the flag read as "False" the gate does no
\* distribution lookup and no guard check.
C39_FlagWrittenOnlyWhenAbsent == [][C39_Step]_vars

\* a request the guard denied had read the flag as absent and left "True"
C39_Witness ==
    \E r \in Proc :
        /\ cpc[r] = "done"
        /\ coutcome[r] = "HTTPForbidden"
        /\ cpresent[r] = "None"
        /\ cguard[r] = "True"
        /\ cacheFlag[cbk[r]] = "True"

\* the Artifact row of the ContentArtifact is committed
LinkedArtifactExists ==
    caArtifact # NoArtifact /\ \E r \in rows : r.id = caArtifact

\* a clean end of stream: the row and the link are in the store; a request
\* whose persistence raised has none
C40_State ==
    \A p \in Proc :
        /\ eof[p] => LinkedArtifactExists /\ result[p] = "ok"
        /\ result[p] = "DatabaseError" => ~eof[p] /\ pc[p] = "done"

\* write_eof comes after the cache attachment, which comes after the return
\* of _save_artifact, whose commit made the row and the link
C40_Step ==
    \A p \in Proc :
        /\ (~eof[p] /\ eof'[p]) => pc[p] = "eof" /\ LinkedArtifactExists
        /\ (pc[p] # "eof" /\ pc'[p] = "eof") => pc[p] = "saved"
        /\ (pc[p] # "saved" /\ pc'[p] = "saved") =>
              /\ pc[p] = "link"
              /\ caArtifact' = art[p]
              /\ \E r \in rows' : r.id = art[p]

=========================================================================
